---- MODULE Spec2Model ----
(***************************************************************************)
(* A model of mundane.app.ArgparseApp: the registration of global flags,   *)
(* shared parsers, after-parse hooks and commands, and run(), which parses *)
(* argv, calls the hooks and dispatches to the selected function.          *)
(*                                                                         *)
(* argparse itself is modelled by what it does for the argv shapes used    *)
(* here: optional flags, -h, command tokens and nested subparsers.         *)
(***************************************************************************)
EXTENDS Integers, Sequences, FiniteSets, TLC

VARIABLES
    parsers,            \* every argparse.ArgumentParser made so far, by id
    subparser_cached,   \* ArgparseApp.subparser (cached_property) was computed
    shared_parsers,     \* ArgparseApp._shared_parsers: name -> parser id
    after_parse_hooks,  \* ArgparseApp._after_parse_hooks
    result,             \* what the last registration call returned or raised
    pc,                 \* where run() is
    argv,               \* the argv run() was called with
    args,               \* the Namespace run() works on
    hook_idx,           \* the next hook the for loop of run() calls
    trace,              \* what run() has called and printed so far
    outcome,            \* how run() ended
    docstring,          \* a Docstring object: _doc, _width, _summary, _description
    reflowed,           \* the Docstring made from the description of `docstring`
    root,               \* logging.getLogger(): its level and its handlers
    log_handlers,       \* every log_mgr.LogHandler made so far, by id
    fs,                 \* the file system: path -> directory, file or symlink
    log_flags           \* the LogLevel and LogDir actions of the global flags

vars == << parsers, subparser_cached, shared_parsers, after_parse_hooks,
           result, pc, argv, args, hook_idx, trace, outcome, docstring,
           reflowed, root, log_handlers, fs, log_flags >>

reg_vars == << parsers, subparser_cached, shared_parsers, after_parse_hooks,
               result >>

run_vars == << pc, argv, args, hook_idx, trace, outcome >>

doc_vars == << docstring, reflowed >>

log_vars == << root, log_handlers, fs, log_flags >>

----------------------------------------------------------------------------
(* Bounds of the model. *)

MaxParsers == 3     \* ArgumentParser objects the app holds, the main one included
MaxHooks == 2       \* length of _after_parse_hooks
MaxListed == 2      \* entries of one scope's _choices_actions

----------------------------------------------------------------------------
(* Python values: a type tag and a payload. *)

PyNone == [t |-> "NoneType", v |-> 0]
PyInt(n) == [t |-> "int", v |-> n]
PyBool(b) == [t |-> "bool", v |-> b]
PyStr(s) == [t |-> "str", v |-> s]
PyFunc(f) == [t |-> "function", v |-> f]

\* str(bool), as an f-string formats it
StrOfBool(b) == IF b THEN "True" ELSE "False"

\* x or 0
OrZero(x) == IF x = PyNone \/ x = PyInt(0) \/ x = PyBool(FALSE) THEN PyInt(0) ELSE x

EX_USAGE == 64

\* None, where a parser would be returned
None == 0

\* an empty Namespace / an empty dict
Empty == [k \in {} |-> PyNone]

\* dict.update: the entries of g win
Update(f, g) ==
    [k \in DOMAIN f \cup DOMAIN g |-> IF k \in DOMAIN g THEN g[k] ELSE f[k]]

\* setattr(ns, k, x)
SetAttr(ns, k, x) == Update(ns, [d \in {k} |-> x])

\* delattr(ns, k)
DelAttr(ns, k) == [d \in DOMAIN ns \ {k} |-> ns[d]]

HasAttr(ns, k) == k \in DOMAIN ns

----------------------------------------------------------------------------
(* The functions the test modules and the tests hand to the app.  An       *)
(* identifier is a sequence of pieces: "_" or a run of other characters.   *)

FuncName(f) ==
    CASE f = "generate_report" -> << "generate", "_", "report" >>
      [] f = "remove_shoes" -> << "remove", "_", "shoes" >>
      [] f = "process" -> << "process" >>
      [] f = "dance" -> << "dance" >>
      [] f = "fallback" -> << "fallback" >>
      [] f = "put_on_hat" -> << "put", "_", "on", "_", "hat" >>
      [] f = "roger" -> << "roger" >>
      [] f = "class_" -> << "class", "_" >>
      [] f = "marine" -> << "marine" >>
      [] f = "ingest_new_material" -> << "ingest", "_", "new", "_", "material" >>

\* The functions handed to register_command.
Commands == { "generate_report", "remove_shoes", "dance" }

\* The function the tests install with parser.set_defaults(func=fallback).
Fallbacks == { "fallback" }

\* What calling f(ns) does: it returns a value or raises.
Returned(x) == [kind |-> "return", val |-> x]
Raised(e) == [kind |-> "raise", val |-> PyStr(<< e >>)]

CallFunc(f, ns) ==
    CASE f = "generate_report" ->
            IF HasAttr(ns, "name") THEN Returned(PyNone)
            ELSE Raised("AttributeError")
      [] f = "remove_shoes" ->
            IF HasAttr(ns, "name") /\ HasAttr(ns, "checker")
            THEN Returned(PyInt(3))
            ELSE Raised("AttributeError")
      [] f = "process" -> Returned(PyInt(1))
      [] f = "dance" ->
            IF HasAttr(ns, "now") /\ ns["now"] = PyBool(FALSE)
            THEN Raised("RuntimeError")
            ELSE Raised("AttributeError")
      [] f = "fallback" -> Returned(PyInt(42))
      [] f = "put_on_hat" -> Returned(PyInt(99))
      [] f = "roger" -> Returned(PyInt(0))
      [] f = "class_" -> Returned(PyInt(0))
      [] f = "marine" -> Returned(PyInt(0))
      [] f = "ingest_new_material" ->
            IF HasAttr(ns, "filename") THEN Returned(PyInt(5))
            ELSE Raised("AttributeError")

\* The after-parse hooks of the test modules and of the example.
Hooks == { "check_foo", "hook_one" }

\* Hooks that remove the func of the Namespace or put their own there.
FuncHooks == { "drop_func", "use_roger", "hook_one" }

\* What calling hook h(ns) does: it changes ns in place or raises.
CallHook(h, ns) ==
    CASE h = "check_foo" ->
            IF HasAttr(ns, "foo")
            THEN [kind |-> "return",
                  ns |-> SetAttr(ns, "checker",
                            PyStr(<< "Foo was ", StrOfBool(ns["foo"].v) >>))]
            ELSE [kind |-> "raise", ns |-> ns]
      [] h = "hook_one" -> [kind |-> "return", ns |-> ns]
      [] h = "drop_func" ->                     \* del args.func
            IF HasAttr(ns, "func")
            THEN [kind |-> "return", ns |-> DelAttr(ns, "func")]
            ELSE [kind |-> "raise", ns |-> ns]
      [] h = "use_roger" ->                     \* args.func = roger
            [kind |-> "return", ns |-> SetAttr(ns, "func", PyFunc("roger"))]

----------------------------------------------------------------------------
(* Command names. *)

\* str.replace('_', '-') on an identifier
Hyphenate(id) == [i \in 1..Len(id) |-> IF id[i] = "_" THEN "-" ELSE id[i]]

\* name = func.__name__.replace('_', '-')
CommandName(f) == Hyphenate(FuncName(f))

----------------------------------------------------------------------------
(* argparse.ArgumentParser objects.  A parser is known by its id, its      *)
(* index in parsers.  A parser that add_subparsers was called on carries   *)
(* the _SubParsersAction: _name_parser_map and _choices_actions.           *)

\* self._parser
MainParser == 1

NewParser(flags) ==
    [ defaults |-> Empty,           \* set_defaults(): dest -> value
      flags |-> flags,              \* add_argument(): dest -> default
      has_sub |-> FALSE,            \* add_subparsers() was called
      name_parser_map |-> Empty,    \* command name -> parser id
      choices_actions |-> << >> ]   \* command names, as help lists them

\* The flags modules add: dest -> default.
FlagDefault(dest) ==
    CASE dest = "foo" -> PyBool(FALSE)      \* action='store_true'
      [] dest = "xyzzy" -> PyNone           \* action='store'
      [] dest = "keep" -> PyNone            \* BooleanOptionalAction
      [] dest = "depth" -> PyInt(0)         \* action='store', default=0
      [] dest = "filename" -> PyNone        \* action='store'
      [] dest = "now" -> PyBool(FALSE)      \* BooleanOptionalAction, default=False

\* required=True
Required(dest) == dest \in { "xyzzy", "filename" }

GlobalFlags == { "foo" }
SharedFlags == { "xyzzy", "keep" }
SharedNames == { "foo", "req_file" }

----------------------------------------------------------------------------
(* mundane.log_mgr: the root logger, the LogHandler objects and the files   *)
(* they make.  A path is a sequence of names, an absolute one starts with  *)
(* "/"; the file system maps the path of an entry to what is there.       *)

MaxHandlers == 2    \* LogHandler objects made
MaxRecords == 2     \* records written to one log file

\* os.getcwd()
Cwd == << "/", "cwd" >>

\* pathlib.Path.absolute(): the working directory in front of a relative
\* path; ".." stays as it is
absolute(path) ==
    IF path # << >> /\ Head(path) = "/" THEN path ELSE Cwd \o path

\* os.path.normpath on an absolute path: "name/.." is collapsed
RECURSIVE normpath(_, _)
normpath(path, done) ==
    IF path = << >> THEN done
    ELSE IF Head(path) = ".."
         THEN normpath(Tail(path),
                       IF Len(done) > 1 THEN SubSeq(done, 1, Len(done) - 1)
                       ELSE done)
         ELSE normpath(Tail(path), Append(done, Head(path)))

\* os.path.abspath
abspath(path) == normpath(absolute(path), << >>)

\* pathlib.Path.parent
parent(path) == SubSeq(path, 1, Len(path) - 1)

\* the values of output_dir: relative, relative with "..", and absolute
OutputDirs == { << "one" >>, << "one", "..", "two" >>, << "/", "tmp" >> }

\* handler.stream is None
NoStream == << >>

\* platform.node(), process.username(), now and process.pid, as the
\* f-string formats them
HostUserDatePid == ".host.user.20260101-000000.1"

\* LogHandler.output_dir = value
set_output_dir(h, value) ==
    [h EXCEPT !.output_dir = value,
              !.symlink_path = absolute(value \o << h.short_filename >>),
              !.base_path = absolute(value \o << h.long_filename >>),
              !.baseFilename = absolute(value \o << h.long_filename >>)]

\* a LogHandler made with delay=False: the stream is there from the start
NewLogHandler_no_delay(progname, output_dir) ==
    LET short == progname \o ".log"
        h == set_output_dir(
                 [short_filename |-> short,
                  long_filename |-> short \o HostUserDatePid,
                  output_dir |-> << >>, symlink_path |-> << >>,
                  base_path |-> << >>, baseFilename |-> << >>,
                  stream |-> NoStream],
                 output_dir)
    IN  [h EXCEPT !.baseFilename = abspath(h.base_path),
                  !.stream = abspath(h.base_path)]

\* LogHandler.__init__(progname, output_dir): the names, the output_dir
\* setter, then logging.FileHandler.__init__(self._base_path, delay=True),
\* which sets baseFilename = os.path.abspath(filename) and stream = None
NewLogHandler(progname, output_dir) ==
    LET short == progname \o ".log"
        h == set_output_dir(
                 [short_filename |-> short,
                  long_filename |-> short \o HostUserDatePid,
                  output_dir |-> << >>, symlink_path |-> << >>,
                  base_path |-> << >>, baseFilename |-> << >>,
                  stream |-> NoStream],
                 output_dir)
    IN  [h EXCEPT !.baseFilename = abspath(h.base_path)]

\* logging.FileHandler.close()
close(h) == [h EXCEPT !.stream = NoStream]

\* What a path of the file system holds.
Dir == [kind |-> "dir", target |-> << >>, records |-> 0]
File(n) == [kind |-> "file", target |-> << >>, records |-> n]
Symlink(target) == [kind |-> "symlink", target |-> target, records |-> 0]

\* the entry a path leads to: no directory is a symlink here, so ".." is
\* the directory above
Key(path) == abspath(path)

Exists(files, path) == Key(path) \in DOMAIN files

Put(files, path, entry) == Update(files, [k \in { Key(path) } |-> entry])

\* pathlib.Path.mkdir(parents=True, exist_ok=True): every directory on the
\* way is made; something on the way that is not a directory is an OSError
mkdir_parents(files, path) ==
    LET keys == { Key(SubSeq(path, 1, n)) : n \in 1..Len(path) } IN
    IF \E k \in keys : k \in DOMAIN files /\ files[k].kind # "dir"
    THEN [err |-> "OSError", fs |-> files]
    ELSE [err |-> "", fs |-> Update(files, [k \in keys |-> Dir])]

\* the symlink put in place whatever is there
symlink_replace_always(files, h) ==
    Put(files, h.symlink_path, Symlink(h.baseFilename))

\* try: symlink_path.unlink(missing_ok=True); symlink_path.symlink_to(...)
\* except OSError: pass -- unlink of a directory is an OSError
best_effort_symlink(files, h) ==
    IF Exists(files, h.symlink_path) /\ files[Key(h.symlink_path)].kind = "dir"
    THEN files
    ELSE Put(files, h.symlink_path, Symlink(h.baseFilename))

\* open(self.baseFilename, 'a'): the file is made when it is not there
open_append(files, path) ==
    IF Exists(files, path) THEN files ELSE Put(files, path, File(0))

\* LogHandler._open: the directory, the file, the symlink
open_log(h, files) ==
    LET made == mkdir_parents(files, parent(h.base_path)) IN
    IF made.err # ""
    THEN [err |-> made.err, fs |-> made.fs, h |-> h]
    ELSE [err |-> "",
          fs |-> best_effort_symlink(open_append(made.fs, h.baseFilename), h),
          h |-> [h EXCEPT !.stream = Key(h.baseFilename)]]

\* logging.FileHandler.emit(record): the stream is opened when there is
\* none, and the record is written to the stream
emit(h, files) ==
    LET o == IF h.stream = NoStream THEN open_log(h, files)
             ELSE [err |-> "", fs |-> files, h |-> h]
    IN  IF o.err # "" THEN o
        ELSE [err |-> "",
              fs |-> [o.fs EXCEPT ![o.h.stream].records = @ + 1],
              h |-> o.h]

\* The logging levels with a name, logging._nameToLevel.
LevelNames == { "DEBUG", "INFO", "WARNING" }

LevelNumber(name) ==
    CASE name = "DEBUG" -> 10
      [] name = "INFO" -> 20
      [] name = "WARNING" -> 30

\* logging.getLevelName(number)
getLevelName(number) == CHOOSE name \in LevelNames : LevelNumber(name) = number

\* log_mgr.set_root_log_level(level)
set_root_log_level(r, level) ==
    IF level.t = "NoneType" THEN r
    ELSE [r EXCEPT !.level = LevelNumber(level.v)]

\* the root logger as `import logging` leaves it: WARNING, no handlers
NewRoot == [level |-> LevelNumber("WARNING"), handlers |-> << >>]

\* no LogLevel and no LogDir action has been added to the global flags
NoLogFlags == [level |-> FALSE, dir |-> None]

\* the files there are before the program runs
InitialFiles == [k \in { << "/" >>, Cwd, << "/", "tmp" >> } |-> Dir]

----------------------------------------------------------------------------
(* The state after construction. *)

\* no Docstring object has been made
NoDocstring == [made |-> FALSE]

\* The last registration call: the method, its argument, and what it gave
\* its caller: a parser (or None), or an error.
Call(op, arg, ret, err) == [op |-> op, arg |-> arg, ret |-> ret, err |-> err]

Init ==
    /\ parsers = << NewParser(Empty) >>
    /\ subparser_cached = FALSE
    /\ shared_parsers = Empty
    /\ after_parse_hooks = << >>
    /\ result = Call("__init__", "", None, "")
    /\ pc = "idle"
    /\ argv = << >>
    /\ args = Empty
    /\ hook_idx = 0
    /\ trace = << >>
    /\ outcome = [kind |-> "none", val |-> PyNone]
    /\ docstring = NoDocstring
    /\ reflowed = NoDocstring
    /\ root = NewRoot
    /\ log_handlers = << >>
    /\ fs = InitialFiles
    /\ log_flags = NoLogFlags

Idle == pc = "idle"

----------------------------------------------------------------------------
(* Registration. *)

\* parser.add_argument(...): a dest added twice is a conflict
add_argument(ps, p, dest) ==
    IF dest \in DOMAIN ps[p].flags
    THEN [err |-> "ArgumentError", ps |-> ps]
    ELSE [err |-> "",
          ps |-> [ps EXCEPT ![p].flags =
                     Update(@, [d \in {dest} |-> FlagDefault(dest)])]]

\* an_app.global_flags.add_argument('--foo', action='store_true')
global_flags_add_argument(dest) ==
    /\ Idle
    /\ LET r == add_argument(parsers, MainParser, dest) IN
        /\ parsers' = r.ps
        /\ result' = Call("add_argument", dest, None, r.err)
    /\ UNCHANGED << subparser_cached, shared_parsers, after_parse_hooks >>
    /\ UNCHANGED run_vars
    /\ UNCHANGED doc_vars
    /\ UNCHANGED log_vars

\* my_app.parser.set_defaults(func=fallback)
set_defaults(ps, p, f) ==
    [ps EXCEPT ![p].defaults = SetAttr(@, "func", PyFunc(f))]

parser_set_defaults(f) ==
    /\ Idle
    /\ parsers' = set_defaults(parsers, MainParser, f)
    /\ result' = Call("set_defaults", f, None, "")
    /\ UNCHANGED << subparser_cached, shared_parsers, after_parse_hooks >>
    /\ UNCHANGED run_vars
    /\ UNCHANGED doc_vars
    /\ UNCHANGED log_vars

\* ArgparseApp.register_after_parse_hook
append_hook(hooks, h) == Append(hooks, h)

register_after_parse_hook(h) ==
    /\ Idle
    /\ Len(after_parse_hooks) < MaxHooks
    /\ after_parse_hooks' = append_hook(after_parse_hooks, h)
    /\ result' = Call("register_after_parse_hook", h, None, "")
    /\ UNCHANGED << parsers, subparser_cached, shared_parsers >>
    /\ UNCHANGED run_vars
    /\ UNCHANGED doc_vars
    /\ UNCHANGED log_vars

\* parser.add_subparsers(...): a second call ends in parser.error(), which
\* raises SystemExit
add_subparsers(ps, p) ==
    IF ps[p].has_sub
    THEN [err |-> "SystemExit", ps |-> ps, ret |-> None]
    ELSE [err |-> "", ps |-> [ps EXCEPT ![p].has_sub = TRUE], ret |-> p]

\* ArgparseApp.new_subparser: the handle returned is known by its parser
new_subparser(p) ==
    /\ Idle
    /\ p \in 1..Len(parsers)
    /\ LET r == add_subparsers(parsers, p) IN
        /\ parsers' = r.ps
        /\ result' = Call("new_subparser", "", r.ret, r.err)
    /\ UNCHANGED << subparser_cached, shared_parsers, after_parse_hooks >>
    /\ UNCHANGED run_vars
    /\ UNCHANGED doc_vars
    /\ UNCHANGED log_vars

\* the property without the cache: every access calls new_subparser
subparser_uncached(ps, cached) ==
    LET r == add_subparsers(ps, MainParser) IN
    [err |-> r.err, ps |-> r.ps, ret |-> r.ret, cached |-> r.err = ""]

\* ArgparseApp.subparser, a functools.cached_property: the first access
\* calls new_subparser(self._parser) and keeps what it returned
subparser(ps, cached) ==
    IF cached
    THEN [err |-> "", ps |-> ps, ret |-> MainParser, cached |-> TRUE]
    ELSE LET r == add_subparsers(ps, MainParser) IN
         [err |-> r.err, ps |-> r.ps, ret |-> r.ret, cached |-> r.err = ""]

\* add_parser without the `conflicting subparser` test
add_parser_overwrite(ps, owner, name) ==
    LET id == Len(ps) + 1 IN
    [err |-> "",
     ps |-> Append(
               [ps EXCEPT
                   ![owner].choices_actions = Append(@, name),
                   ![owner].name_parser_map =
                       Update(@, [n \in {name} |-> id])],
               NewParser(Empty)),
     ret |-> id]

\* _SubParsersAction.add_parser(name, **kwargs), on the handle of `owner`
add_parser(ps, owner, name) ==
    IF name \in DOMAIN ps[owner].name_parser_map
    THEN [err |-> "ArgumentError", ps |-> ps, ret |-> None]
    ELSE LET id == Len(ps) + 1 IN
         [err |-> "",
          ps |-> Append(
                    [ps EXCEPT
                        ![owner].choices_actions = Append(@, name),
                        ![owner].name_parser_map =
                            Update(@, [n \in {name} |-> id])],
                    NewParser(Empty)),
          ret |-> id]

\* ArgparseApp.register_command(func, subparser): `handle` is None or the
\* parser a new_subparser handle belongs to
register_command_on(ps, cached, f, handle) ==
    LET sp == IF handle = None THEN subparser(ps, cached)
              ELSE [err |-> "", ps |-> ps, ret |-> handle, cached |-> cached]
    IN  IF sp.err # ""
        THEN [err |-> sp.err, ps |-> sp.ps, ret |-> None, cached |-> sp.cached]
        ELSE LET ap == add_parser(sp.ps, sp.ret, CommandName(f)) IN
             IF ap.err # ""
             THEN [err |-> ap.err, ps |-> ap.ps, ret |-> None,
                   cached |-> sp.cached]
             ELSE [err |-> "", ps |-> set_defaults(ap.ps, ap.ret, f),
                   ret |-> ap.ret, cached |-> sp.cached]

Handles == { p \in 1..Len(parsers) : parsers[p].has_sub }

register_command(f, handle) ==
    /\ Idle
    /\ handle \in {None} \cup Handles
    /\ LET r == register_command_on(parsers, subparser_cached, f, handle) IN
        /\ Len(r.ps) <= MaxParsers
        /\ parsers' = r.ps
        /\ subparser_cached' = r.cached
        /\ result' = Call("register_command", f, r.ret, r.err)
    /\ UNCHANGED << shared_parsers, after_parse_hooks >>
    /\ UNCHANGED run_vars
    /\ UNCHANGED doc_vars
    /\ UNCHANGED log_vars

\* my_app.subparser: an access to the property by the program
access_subparser ==
    /\ Idle
    /\ LET r == subparser(parsers, subparser_cached) IN
        /\ parsers' = r.ps
        /\ subparser_cached' = r.cached
        /\ result' = Call("subparser", "", r.ret, r.err)
    /\ UNCHANGED << shared_parsers, after_parse_hooks >>
    /\ UNCHANGED run_vars
    /\ UNCHANGED doc_vars
    /\ UNCHANGED log_vars

----------------------------------------------------------------------------
(* Shared parsers. *)

\* new_shared_parser without the test `name not in self._shared_parsers`
new_shared_parser_overwrite(ps, shared, name) ==
    LET id == Len(ps) + 1 IN
    [ps |-> Append(ps, NewParser(Empty)),
     shared |-> Update(shared, [n \in {name} |-> id]),
     ret |-> id]

\* ArgparseApp.new_shared_parser: a new parser iff the name is not in use
new_shared_parser_on(ps, shared, name) ==
    IF name \notin DOMAIN shared
    THEN LET id == Len(ps) + 1 IN
         [ps |-> Append(ps, NewParser(Empty)),
          shared |-> Update(shared, [n \in {name} |-> id]),
          ret |-> id]
    ELSE [ps |-> ps, shared |-> shared, ret |-> None]

new_shared_parser(name) ==
    /\ Idle
    /\ LET r == new_shared_parser_on(parsers, shared_parsers, name) IN
        /\ Len(r.ps) <= MaxParsers
        /\ parsers' = r.ps
        /\ shared_parsers' = r.shared
        /\ result' = Call("new_shared_parser", name, r.ret, "")
    /\ UNCHANGED << subparser_cached, after_parse_hooks >>
    /\ UNCHANGED run_vars
    /\ UNCHANGED doc_vars
    /\ UNCHANGED log_vars

\* get_shared_parser written with dict.setdefault(name, ArgumentParser())
get_shared_parser_setdefault(ps, shared, name) ==
    IF name \in DOMAIN shared
    THEN [ps |-> ps, shared |-> shared, ret |-> shared[name]]
    ELSE LET id == Len(ps) + 1 IN
         [ps |-> Append(ps, NewParser(Empty)),
          shared |-> Update(shared, [n \in {name} |-> id]),
          ret |-> id]

\* ArgparseApp.get_shared_parser: self._shared_parsers.get(name)
get_shared_parser_on(ps, shared, name) ==
    [ps |-> ps, shared |-> shared,
     ret |-> IF name \in DOMAIN shared THEN shared[name] ELSE None]

get_shared_parser(name) ==
    /\ Idle
    /\ LET r == get_shared_parser_on(parsers, shared_parsers, name) IN
        /\ Len(r.ps) <= MaxParsers
        /\ parsers' = r.ps
        /\ shared_parsers' = r.shared
        /\ result' = Call("get_shared_parser", name, r.ret, "")
    /\ UNCHANGED << subparser_cached, after_parse_hooks >>
    /\ UNCHANGED run_vars
    /\ UNCHANGED doc_vars
    /\ UNCHANGED log_vars

\* parser = ctx.new_shared_parser(name) or ctx.get_shared_parser(name);
\* parser.add_argument(...)
shared_add_argument(name, dest) ==
    /\ Idle
    /\ name \in DOMAIN shared_parsers
    /\ LET r == add_argument(parsers, shared_parsers[name], dest) IN
        /\ parsers' = r.ps
        /\ result' = Call("add_argument", dest, None, r.err)
    /\ UNCHANGED << subparser_cached, shared_parsers, after_parse_hooks >>
    /\ UNCHANGED run_vars
    /\ UNCHANGED doc_vars
    /\ UNCHANGED log_vars

----------------------------------------------------------------------------
(* argparse's parse_args, for argv made of -h, --foo and positional tokens. *)

HelpToken == << "-h" >>
FooToken == << "--foo" >>
BogusToken == << "bogus" >>
XyzzyToken == << "--xyzzy=foo" >>
KeepToken == << "-k" >>
DepthToken == << "--depth=50" >>

Tokens == { HelpToken, FooToken, BogusToken } \cup { CommandName(f) : f \in Commands }

IsOption(tok) ==
    tok \in { HelpToken, FooToken, XyzzyToken, KeepToken, DepthToken }

\* the dest an option string stores to
OptionDest(tok) ==
    CASE tok = FooToken -> "foo"
      [] tok = XyzzyToken -> "xyzzy"
      [] tok = KeepToken -> "keep"
      [] tok = DepthToken -> "depth"

\* what the option's action stores
OptionValue(tok) ==
    CASE tok = FooToken -> PyBool(TRUE)             \* store_true
      [] tok = XyzzyToken -> PyStr(<< "foo" >>)     \* store
      [] tok = KeepToken -> PyBool(TRUE)            \* BooleanOptionalAction
      [] tok = DepthToken -> PyInt(50)              \* store, type=int

\* parse_known_args starts from the defaults: every action's default (the
\* subparsers action has dest='name', default None), then the parser's
\* set_defaults() entries for the attributes still missing
InitialNamespace(parser) ==
    LET actions == IF parser.has_sub
                   THEN SetAttr(parser.flags, "name", PyNone)
                   ELSE parser.flags
    IN  Update(parser.defaults, actions)

RECURSIVE consume_args(_, _, _, _, _)

\* ArgumentParser.parse_known_args(toks) on parser p
parse_known_args(ps, p, toks) ==
    consume_args(ps, p, toks, InitialNamespace(ps[p]), FALSE)

\* a required option of parser p was not given: its dest still holds the
\* default
MissingRequired(parser, ns) ==
    \E d \in DOMAIN parser.flags : Required(d) /\ ns[d] = FlagDefault(d)

\* the loop of _parse_known_args: options are stored, -h prints the help
\* and exits, an unknown option or a positional nobody takes goes to the
\* extras, and the subparsers action takes the first positional and all
\* that follows (_SubParsersAction.__call__); at the end a required option
\* that was not given is an error
consume_args(ps, p, toks, ns, extras) ==
    IF toks = << >>
    THEN IF MissingRequired(ps[p], ns)
         THEN [kind |-> "error", ns |-> ns, extras |-> extras, at |-> p]
         ELSE [kind |-> "ns", ns |-> ns, extras |-> extras, at |-> p]
    ELSE LET tok == Head(toks)
             rest == Tail(toks)
         IN  IF tok = HelpToken
             THEN [kind |-> "help", ns |-> ns, extras |-> extras, at |-> p]
             ELSE IF IsOption(tok)
             THEN IF OptionDest(tok) \in DOMAIN ps[p].flags
                  THEN consume_args(ps, p, rest,
                          SetAttr(ns, OptionDest(tok), OptionValue(tok)),
                          extras)
                  ELSE consume_args(ps, p, rest, ns, TRUE)
             ELSE IF ~ps[p].has_sub
             THEN consume_args(ps, p, rest, ns, TRUE)
             ELSE IF tok \notin DOMAIN ps[p].name_parser_map
             THEN [kind |-> "error", ns |-> ns, extras |-> extras, at |-> p]
             ELSE LET sub == parse_known_args(
                                ps, ps[p].name_parser_map[tok], rest)
                  IN  IF sub.kind # "ns" THEN sub
                      ELSE [kind |-> "ns",
                            ns |-> Update(SetAttr(ns, "name", PyStr(tok)),
                                          sub.ns),
                            extras |-> extras \/ sub.extras,
                            at |-> p]

\* parse_args that lets extras pass, as parse_known_args does
parse_args_keep_extras(ps, toks) == parse_known_args(ps, MainParser, toks)

\* ArgumentParser.parse_args: extras are an error
parse_args(ps, toks) ==
    LET r == parse_known_args(ps, MainParser, toks) IN
    IF r.kind = "ns" /\ r.extras
    THEN [kind |-> "error", ns |-> r.ns, extras |-> TRUE, at |-> MainParser]
    ELSE r

\* The argv run() is called with.
Argvs ==
    { << >> } \cup { << a >> : a \in Tokens }
              \cup { << a, b >> : a \in Tokens, b \in Tokens }

----------------------------------------------------------------------------
(* Logging: activate, the output directory, records. *)

\* logging.basicConfig(handlers=[handler], force=True): the handlers the
\* root logger has are removed and closed, the new one is added
basicConfig(r, handlers, id) ==
    [root |-> [r EXCEPT !.handlers = << id >>],
     handlers |-> [i \in DOMAIN handlers |->
                     IF \E k \in DOMAIN r.handlers : r.handlers[k] = i
                     THEN close(handlers[i]) ELSE handlers[i]]]

\* self.appname, the prog of the main parser
AppName == "prog"

\* log_mgr.activate(appname, output_dir)
activate(dir) ==
    /\ Idle
    /\ Len(log_handlers) < MaxHandlers
    /\ LET made == Append(log_handlers, NewLogHandler(AppName, dir))
           c == basicConfig(root, made, Len(made))
       IN  /\ root' = c.root
           /\ log_handlers' = c.handlers
    /\ UNCHANGED << fs, log_flags >>
    /\ UNCHANGED reg_vars
    /\ UNCHANGED run_vars
    /\ UNCHANGED doc_vars

\* handler.output_dir = value, for a LogHandler the program holds
assign_output_dir(id, dir) ==
    /\ Idle
    /\ id \in DOMAIN log_handlers
    /\ log_handlers' = [log_handlers EXCEPT ![id] = set_output_dir(@, dir)]
    /\ UNCHANGED << root, fs, log_flags >>
    /\ UNCHANGED reg_vars
    /\ UNCHANGED run_vars
    /\ UNCHANGED doc_vars

\* Logger.callHandlers: the record is handed to each handler in turn
RECURSIVE callHandlers(_, _, _)
callHandlers(ids, handlers, files) ==
    IF ids = << >> THEN [err |-> "", handlers |-> handlers, fs |-> files]
    ELSE LET e == emit(handlers[Head(ids)], files) IN
         IF e.err # ""
         THEN [err |-> e.err, handlers |-> handlers, fs |-> e.fs]
         ELSE callHandlers(Tail(ids),
                           [handlers EXCEPT ![Head(ids)] = e.h], e.fs)

\* logging.log(level, ...): a record of an enabled level goes to the
\* handlers of the root logger
log(level) ==
    /\ Idle
    /\ root.handlers # << >>
    /\ \A k \in DOMAIN fs : fs[k].records < MaxRecords
    /\ IF LevelNumber(level) >= root.level
       THEN LET c == callHandlers(root.handlers, log_handlers, fs) IN
            /\ log_handlers' = c.handlers
            /\ fs' = c.fs
       ELSE UNCHANGED << log_handlers, fs >>
    /\ UNCHANGED << root, log_flags >>
    /\ UNCHANGED reg_vars
    /\ UNCHANGED run_vars
    /\ UNCHANGED doc_vars

\* logging.getLogger().setLevel(level)
setLevel(level) ==
    /\ Idle
    /\ root' = set_root_log_level(root, PyStr(level))
    /\ UNCHANGED << log_handlers, fs, log_flags >>
    /\ UNCHANGED reg_vars
    /\ UNCHANGED run_vars
    /\ UNCHANGED doc_vars

\* handler.symlink_path.touch(), in a directory that is there
touch(id) ==
    /\ Idle
    /\ id \in DOMAIN log_handlers
    /\ Exists(fs, parent(log_handlers[id].symlink_path))
    /\ ~Exists(fs, log_handlers[id].symlink_path)
    /\ fs' = Put(fs, log_handlers[id].symlink_path, File(0))
    /\ UNCHANGED << root, log_handlers, log_flags >>
    /\ UNCHANGED reg_vars
    /\ UNCHANGED run_vars
    /\ UNCHANGED doc_vars

\* handler.symlink_path.mkdir(), in a directory that is there
mkdir(id) ==
    /\ Idle
    /\ id \in DOMAIN log_handlers
    /\ Exists(fs, parent(log_handlers[id].symlink_path))
    /\ ~Exists(fs, log_handlers[id].symlink_path)
    /\ fs' = Put(fs, log_handlers[id].symlink_path, Dir)
    /\ UNCHANGED << root, log_handlers, log_flags >>
    /\ UNCHANGED reg_vars
    /\ UNCHANGED run_vars
    /\ UNCHANGED doc_vars

\* A program that activates the log handler, moves its output directory
\* and logs; files may be in the way of the symlink.
NextLog ==
    \/ \E d \in OutputDirs : activate(d)
    \/ \E id \in 1..MaxHandlers, d \in OutputDirs : assign_output_dir(id, d)
    \/ \E l \in LevelNames : log(l)
    \/ \E l \in LevelNames : setLevel(l)
    \/ \E id \in 1..MaxHandlers : touch(id)
    \/ \E id \in 1..MaxHandlers : mkdir(id)

SpecLog == Init /\ [][NextLog]_vars


\* -L LEVEL and --log-dir DIR, as argv has them
LevelToken(level) == << "-L", level >>
DirToken(dir) == << "--log-dir" >> \o dir

IsLevelToken(tok) == tok # << >> /\ Head(tok) = "-L"
IsDirToken(tok) == tok # << >> /\ Head(tok) = "--log-dir"

\* LogLevel.__call__ that stores the level in the namespace
LogLevel_store(st, values) ==
    [st EXCEPT !.ns = SetAttr(@, "log_level", values)]

\* LogLevel.__call__(parser, namespace, values): set_root_log_level(values)
LogLevel_call(st, values) ==
    [st EXCEPT !.root = set_root_log_level(@, values)]

\* the setter of LogDir.log_dir
LogDir_log_dir(st, value) ==
    IF value.t = "NoneType" THEN st
    ELSE [st EXCEPT !.handlers[st.flags.dir] = set_output_dir(@, value.v)]

\* LogDir.__call__(parser, namespace, values): self.log_dir = values
LogDir_call(st, values) == LogDir_log_dir(st, values)

\* What the LogLevel and LogDir actions of the main parser do while
\* parse_args goes through toks: st is the root logger, the handlers, the
\* actions and what they set in the namespace.  A level that is not one of
\* the choices is an error; -h ends the parse; with subparsers the first
\* positional takes all that follows.  The tokens left are those of the
\* other actions.
RECURSIVE parse_log_flags(_, _, _)
parse_log_flags(parser, toks, st) ==
    IF toks = << >> THEN [err |-> FALSE, st |-> st, toks |-> << >>]
    ELSE LET tok == Head(toks) IN
         IF tok = HelpToken
         THEN [err |-> FALSE, st |-> st, toks |-> toks]
         ELSE IF IsLevelToken(tok) /\ st.flags.level
         THEN IF tok[2] \notin LevelNames
              THEN [err |-> TRUE, st |-> st, toks |-> toks]
              ELSE parse_log_flags(parser, Tail(toks),
                                   LogLevel_call(st, PyStr(tok[2])))
         ELSE IF IsDirToken(tok) /\ st.flags.dir # None
         THEN parse_log_flags(parser, Tail(toks),
                              LogDir_call(st, PyStr(Tail(tok))))
         ELSE IF ~IsOption(tok) /\ parser.has_sub
         THEN [err |-> FALSE, st |-> st, toks |-> toks]
         ELSE LET r == parse_log_flags(parser, Tail(toks), st) IN
              [r EXCEPT !.toks = << tok >> \o @]

----------------------------------------------------------------------------
(* run(): parse, the hooks, the dispatch. *)

Event(ev, who, at, seen) == [ev |-> ev, who |-> who, at |-> at, seen |-> seen]

\* args = self.parser.parse_args(argv); on -h or on an error argparse
\* prints and raises SystemExit itself.  What the LogLevel and LogDir
\* actions did by then stays done.
run_parse(a) ==
    /\ Idle
    /\ argv' = a
    /\ LET pre == parse_log_flags(parsers[MainParser], a,
                                  [root |-> root, handlers |-> log_handlers,
                                   flags |-> log_flags, ns |-> Empty])
           r == IF pre.err
                THEN [kind |-> "error", ns |-> Empty, extras |-> FALSE,
                      at |-> MainParser]
                ELSE parse_args(parsers, pre.toks)
       IN  /\ root' = pre.st.root
           /\ log_handlers' = pre.st.handlers
           /\ CASE r.kind = "ns" ->
                    /\ pc' = "hooks"
                    /\ args' = Update(r.ns, pre.st.ns)
                    /\ hook_idx' = 1
                    /\ trace' = << >>
                    /\ outcome' = [kind |-> "none", val |-> PyNone]
              [] r.kind = "help" ->
                    /\ pc' = "exited"
                    /\ args' = Empty
                    /\ hook_idx' = 0
                    /\ trace' = << Event("print_help", "stdout", r.at, Empty) >>
                    /\ outcome' = [kind |-> "exit", val |-> PyInt(0)]
              [] r.kind = "error" ->
                    /\ pc' = "exited"
                    /\ args' = Empty
                    /\ hook_idx' = 0
                    /\ trace' = << Event("error", "stderr", r.at, Empty) >>
                    /\ outcome' = [kind |-> "exit", val |-> PyInt(2)]
    /\ UNCHANGED << fs, log_flags >>
    /\ UNCHANGED reg_vars
    /\ UNCHANGED doc_vars

\* the loop walking the list from its end
next_hook_reversed(hooks, idx) == hooks[Len(hooks) - idx + 1]

\* the dispatch not waiting for the loop
hooks_done_early(hooks, idx) == TRUE

\* the loop left out when the parse selected no command
hooks_done_without_command(hooks, idx) ==
    IF idx > Len(hooks) \/ ~HasAttr(args, "name") THEN TRUE
    ELSE args["name"].t = "NoneType"

\* for hook in self._after_parse_hooks: the hook the loop calls next, and
\* whether the loop is over
next_hook(hooks, idx) == hooks[idx]

hooks_done(hooks, idx) == idx > Len(hooks)

\* the loop going on to the next hook after a hook raised
run_hook_swallow ==
    /\ pc = "hooks"
    /\ ~hooks_done(after_parse_hooks, hook_idx)
    /\ LET h == next_hook(after_parse_hooks, hook_idx)
           r == CallHook(h, args)
       IN  /\ trace' = Append(trace, Event("hook", h, hook_idx, args))
           /\ args' = r.ns
           /\ hook_idx' = hook_idx + 1
           /\ pc' = "hooks"
           /\ outcome' = outcome
    /\ UNCHANGED << argv >>
    /\ UNCHANGED reg_vars
    /\ UNCHANGED doc_vars
    /\ UNCHANGED log_vars

\* for hook in self._after_parse_hooks: hook(args)
run_hook ==
    /\ pc = "hooks"
    /\ ~hooks_done(after_parse_hooks, hook_idx)
    /\ LET h == next_hook(after_parse_hooks, hook_idx)
           r == CallHook(h, args)
       IN  /\ trace' = Append(trace, Event("hook", h, hook_idx, args))
           /\ args' = r.ns
           /\ IF r.kind = "return"
              THEN /\ hook_idx' = hook_idx + 1
                   /\ pc' = "hooks"
                   /\ outcome' = outcome
              ELSE /\ hook_idx' = hook_idx
                   /\ pc' = "raised"
                   /\ outcome' = Raised("AttributeError")
    /\ UNCHANGED << argv >>
    /\ UNCHANGED reg_vars
    /\ UNCHANGED doc_vars
    /\ UNCHANGED log_vars

\* dispatch that calls args.func and drops what it returned
dispatch_drop_ret(ns) ==
    IF HasAttr(ns, "func")
    THEN LET r == CallFunc(ns["func"].v, ns) IN
         IF r.kind = "return"
         THEN [pc |-> "done",
               events |-> << Event("call", ns["func"].v, 0, ns),
                             Event("log", "Finished", EX_USAGE, Empty) >>,
               outcome |-> Returned(PyInt(EX_USAGE))]
         ELSE [pc |-> "raised",
               events |-> << Event("call", ns["func"].v, 0, ns) >>,
               outcome |-> r]
    ELSE [pc |-> "done",
          events |-> << Event("print_help", "stdout", MainParser, Empty) >>,
          outcome |-> Returned(PyInt(EX_USAGE))]

\* dispatch that returns `ret or 0`
dispatch_ret_or_zero(ns) ==
    IF HasAttr(ns, "func")
    THEN LET r == CallFunc(ns["func"].v, ns) IN
         IF r.kind = "return"
         THEN [pc |-> "done",
               events |-> << Event("call", ns["func"].v, 0, ns),
                             Event("log", "Finished", OrZero(r.val).v, Empty) >>,
               outcome |-> Returned(OrZero(r.val))]
         ELSE [pc |-> "raised",
               events |-> << Event("call", ns["func"].v, 0, ns) >>,
               outcome |-> r]
    ELSE [pc |-> "done",
          events |-> << Event("print_help", "stdout", MainParser, Empty) >>,
          outcome |-> Returned(PyInt(EX_USAGE))]

\* dispatch that starts from ret = 0 and reports a missing func as an error
dispatch_no_usage(ns) ==
    IF HasAttr(ns, "func")
    THEN LET r == CallFunc(ns["func"].v, ns) IN
         IF r.kind = "return"
         THEN [pc |-> "done",
               events |-> << Event("call", ns["func"].v, 0, ns),
                             Event("log", "Finished", OrZero(r.val).v, Empty) >>,
               outcome |-> Returned(r.val)]
         ELSE [pc |-> "raised",
               events |-> << Event("call", ns["func"].v, 0, ns) >>,
               outcome |-> r]
    ELSE [pc |-> "done",
          events |-> << Event("error", "stderr", MainParser, Empty) >>,
          outcome |-> Returned(PyInt(0))]

\* dispatch with the call in try/except, an exception becoming status 1
dispatch_catch(ns) ==
    IF HasAttr(ns, "func")
    THEN LET r == CallFunc(ns["func"].v, ns) IN
         IF r.kind = "return"
         THEN [pc |-> "done",
               events |-> << Event("call", ns["func"].v, 0, ns),
                             Event("log", "Finished", OrZero(r.val).v, Empty) >>,
               outcome |-> Returned(r.val)]
         ELSE [pc |-> "done",
               events |-> << Event("call", ns["func"].v, 0, ns),
                             Event("log", "Finished", 1, Empty) >>,
               outcome |-> Returned(PyInt(1))]
    ELSE [pc |-> "done",
          events |-> << Event("print_help", "stdout", MainParser, Empty) >>,
          outcome |-> Returned(PyInt(EX_USAGE))]

\* dispatch on the func the parse selected, whatever the hooks did to it
dispatch_as_parsed(ns) ==
    LET parsed == parse_args(parsers, argv).ns IN
    IF HasAttr(parsed, "func")
    THEN LET r == CallFunc(parsed["func"].v, ns) IN
         IF r.kind = "return"
         THEN [pc |-> "done",
               events |-> << Event("call", parsed["func"].v, 0, ns),
                             Event("log", "Finished", OrZero(r.val).v, Empty) >>,
               outcome |-> Returned(r.val)]
         ELSE [pc |-> "raised",
               events |-> << Event("call", parsed["func"].v, 0, ns) >>,
               outcome |-> r]
    ELSE [pc |-> "done",
          events |-> << Event("print_help", "stdout", MainParser, Empty) >>,
          outcome |-> Returned(PyInt(EX_USAGE))]

\* ret = os.EX_USAGE; if hasattr(args, 'func'): ret = args.func(args)
\* else: self.parser.print_help(); return ret
dispatch(ns) ==
    IF HasAttr(ns, "func")
    THEN LET r == CallFunc(ns["func"].v, ns) IN
         IF r.kind = "return"
         THEN [pc |-> "done",
               events |-> << Event("call", ns["func"].v, 0, ns),
                             Event("log", "Finished", OrZero(r.val).v, Empty) >>,
               outcome |-> Returned(r.val)]
         ELSE [pc |-> "raised",
               events |-> << Event("call", ns["func"].v, 0, ns) >>,
               outcome |-> r]
    ELSE [pc |-> "done",
          events |-> << Event("print_help", "stdout", MainParser, Empty) >>,
          outcome |-> Returned(PyInt(EX_USAGE))]

run_dispatch ==
    /\ pc = "hooks"
    /\ hooks_done(after_parse_hooks, hook_idx)
    /\ LET d == dispatch(args) IN
        /\ pc' = d.pc
        /\ trace' = trace \o d.events
        /\ outcome' = d.outcome
    /\ UNCHANGED << argv, args, hook_idx >>
    /\ UNCHANGED reg_vars
    /\ UNCHANGED doc_vars
    /\ UNCHANGED log_vars

\* run() has returned, raised or exited; the app can be used again
run_end ==
    /\ pc \in { "done", "raised", "exited" }
    /\ pc' = "idle"
    /\ argv' = << >>
    /\ args' = Empty
    /\ hook_idx' = 0
    /\ trace' = << >>
    /\ outcome' = [kind |-> "none", val |-> PyNone]
    /\ UNCHANGED reg_vars
    /\ UNCHANGED doc_vars
    /\ UNCHANGED log_vars

----------------------------------------------------------------------------

\* An app whose commands are all top-level: global flags, a default func,
\* hooks, commands, and run().
Next ==
    \/ \E d \in GlobalFlags : global_flags_add_argument(d)
    \/ \E f \in Fallbacks : parser_set_defaults(f)
    \/ \E h \in Hooks : register_after_parse_hook(h)
    \/ \E f \in Commands : register_command(f, None)
    \/ \E a \in Argvs : run_parse(a)
    \/ run_hook
    \/ run_dispatch
    \/ run_end

Spec == Init /\ [][Next]_vars

\* An app with nested commands and no hooks: new_subparser, commands in
\* any scope, and run().
NextTree ==
    \/ \E p \in 1..MaxParsers : new_subparser(p)
    \/ \E f \in Commands, h \in 0..MaxParsers : register_command(f, h)
    \/ \E a \in Argvs : run_parse(a)
    \/ run_dispatch
    \/ run_end

SpecTree == Init /\ [][NextTree]_vars

\* An app whose hooks change func: a default func, the hooks, top-level
\* commands, and run().
NextFuncHooks ==
    \/ \E f \in Fallbacks : parser_set_defaults(f)
    \/ \E h \in FuncHooks : register_after_parse_hook(h)
    \/ \E f \in Commands : register_command(f, None)
    \/ \E a \in Argvs : run_parse(a)
    \/ run_hook
    \/ run_dispatch
    \/ run_end

SpecFuncHooks == Init /\ [][NextFuncHooks]_vars

\* An app whose subparser property is read: the property, new_subparser on
\* the main parser, top-level commands, and run().
NextSubparser ==
    \/ access_subparser
    \/ \E p \in { MainParser } : new_subparser(p)
    \/ \E f \in Commands : register_command(f, None)
    \/ \E a \in Argvs : run_parse(a)
    \/ run_dispatch
    \/ run_end

SpecSubparser == Init /\ [][NextSubparser]_vars

\* The registry of shared parsers.
NextShared ==
    \/ \E n \in SharedNames : new_shared_parser(n)
    \/ \E n \in SharedNames : get_shared_parser(n)
    \/ \E n \in SharedNames, d \in SharedFlags : shared_add_argument(n, d)

SpecShared == Init /\ [][NextShared]_vars

----------------------------------------------------------------------------
(* register_command with keyword arguments: they are passed on to          *)
(* add_parser(name, **parser_args), and from there to ArgumentParser().    *)

\* The functions of a module that registers with keyword arguments.
KwargsCommands == { "roger", "class_", "marine" }

\* name='class', as the module registers class_
NameOverride == << "class" >>

\* the kwargs of a call: keyword -> value
NoKwargs == [k \in {} |-> TRUE]
NameKwargs == [k \in {"name"} |-> NameOverride]
UsageOnlyKwargs == [k \in {"usage_only"} |-> TRUE]
ParentsKwargs(p) == [k \in {"parents"} |-> p]

\* The registrations such a module makes: a plain one for every function,
\* class_ also as name='class', and roger also as usage_only=True.
KwargsCalls ==
    { << f, NoKwargs >> : f \in KwargsCommands }
        \cup { << "class_", NameKwargs >>, << "roger", UsageOnlyKwargs >> }

\* the keywords ArgumentParser.__init__ takes, of those passed here
ParserKeywords == { "parents", "help", "description" }

\* a registration call with keyword arguments, and what it gave its caller
CallWith(op, arg, kwargs, ret, err) ==
    [op |-> op, arg |-> arg, kwargs |-> kwargs, ret |-> ret, err |-> err]

\* add_parser that makes the parser without its parents
add_parser_no_parents(ps, owner, name, kwargs) ==
    IF name \in DOMAIN ps[owner].name_parser_map
    THEN [err |-> "ArgumentError", ps |-> ps, ret |-> None]
    ELSE LET id == Len(ps) + 1 IN
         [err |-> "",
          ps |-> Append(
                    [ps EXCEPT
                        ![owner].choices_actions = Append(@, name),
                        ![owner].name_parser_map =
                            Update(@, [n \in {name} |-> id])],
                    NewParser(Empty)),
          ret |-> id]

\* _SubParsersAction.add_parser(name, **kwargs): the conflict test, then the
\* help entry is appended to _choices_actions, then the parser is made (an
\* unknown keyword is a TypeError of ArgumentParser.__init__, parents=[None]
\* an AttributeError), and only then entered in _name_parser_map.  A parser
\* made with parents=[q] gets the flags q has at that moment.
add_parser_kwargs(ps, owner, name, kwargs) ==
    IF name \in DOMAIN ps[owner].name_parser_map
    THEN [err |-> "ArgumentError", ps |-> ps, ret |-> None]
    ELSE LET listed == [ps EXCEPT ![owner].choices_actions = Append(@, name)]
             id == Len(ps) + 1
         IN  IF DOMAIN kwargs \ ParserKeywords # {}
             THEN [err |-> "TypeError", ps |-> listed, ret |-> None]
             ELSE IF "parents" \in DOMAIN kwargs /\ kwargs["parents"] = None
             THEN [err |-> "AttributeError", ps |-> listed, ret |-> None]
             ELSE [err |-> "",
                   ps |-> Append(
                             [listed EXCEPT ![owner].name_parser_map =
                                 Update(@, [n \in {name} |-> id])],
                             NewParser(IF "parents" \in DOMAIN kwargs
                                       THEN ps[kwargs["parents"]].flags
                                       ELSE Empty)),
                   ret |-> id]

\* ArgparseApp.register_command(func, subparser, **kwargs): a `name` among
\* the kwargs is a second value for add_parser's first parameter
register_command_kwargs_on(ps, cached, f, handle, kwargs) ==
    LET sp == IF handle = None THEN subparser(ps, cached)
              ELSE [err |-> "", ps |-> ps, ret |-> handle, cached |-> cached]
    IN  IF sp.err # ""
        THEN [err |-> sp.err, ps |-> sp.ps, ret |-> None, cached |-> sp.cached]
        ELSE IF "name" \in DOMAIN kwargs
        THEN [err |-> "TypeError", ps |-> sp.ps, ret |-> None,
              cached |-> sp.cached]
        ELSE LET ap == add_parser_kwargs(sp.ps, sp.ret, CommandName(f), kwargs)
             IN  IF ap.err # ""
                 THEN [err |-> ap.err, ps |-> ap.ps, ret |-> None,
                       cached |-> sp.cached]
                 ELSE [err |-> "", ps |-> set_defaults(ap.ps, ap.ret, f),
                       ret |-> ap.ret, cached |-> sp.cached]

register_command_kwargs(f, handle, kwargs) ==
    /\ Idle
    /\ handle \in {None} \cup Handles
    /\ LET r == register_command_kwargs_on(parsers, subparser_cached, f,
                                           handle, kwargs)
       IN  /\ Len(r.ps) <= MaxParsers
           /\ \A p \in 1..Len(r.ps) :
                 Len(r.ps[p].choices_actions) <= MaxListed
           /\ parsers' = r.ps
           /\ subparser_cached' = r.cached
           /\ result' = CallWith("register_command", f, kwargs, r.ret, r.err)
    /\ UNCHANGED << shared_parsers, after_parse_hooks >>
    /\ UNCHANGED run_vars
    /\ UNCHANGED doc_vars
    /\ UNCHANGED log_vars

\* The argv of such an app: nothing, or one command token.
KwargsTokens == { CommandName(f) : f \in KwargsCommands } \cup { NameOverride }

ArgvsKwargs == { << >> } \cup { << a >> : a \in KwargsTokens }

\* An app whose commands are registered with keyword arguments.
NextKwargs ==
    \/ \E c \in KwargsCalls : register_command_kwargs(c[1], None, c[2])
    \/ \E a \in ArgvsKwargs : run_parse(a)
    \/ run_dispatch
    \/ run_end

SpecKwargs == Init /\ [][NextKwargs]_vars

----------------------------------------------------------------------------
(* Commands registered with a shared parser as parent.                     *)

\* The functions registered with parents=[...].
ParentCommands == { "put_on_hat", "dance" }

\* The flags a module adds to the parser register_command returned.
OwnFlags == { "depth" }

\* the parsers register_command returned
CommandParsers ==
    { p \in 2..Len(parsers) : HasAttr(parsers[p].defaults, "func") }

\* foo_flags = an_app.get_shared_parser(name)
\* an_app.register_command(f, parents=[foo_flags])
register_command_parents(f, name) ==
    /\ Idle
    /\ LET got == get_shared_parser_on(parsers, shared_parsers, name)
           kwargs == ParentsKwargs(got.ret)
           r == register_command_kwargs_on(got.ps, subparser_cached, f,
                                           None, kwargs)
       IN  /\ Len(r.ps) - Cardinality(DOMAIN got.shared) <= MaxParsers
           /\ \A p \in 1..Len(r.ps) :
                 Len(r.ps[p].choices_actions) <= MaxListed
           /\ parsers' = r.ps
           /\ shared_parsers' = got.shared
           /\ subparser_cached' = r.cached
           /\ result' = CallWith("register_command", f, kwargs, r.ret, r.err)
    /\ UNCHANGED << after_parse_hooks >>
    /\ UNCHANGED run_vars
    /\ UNCHANGED doc_vars
    /\ UNCHANGED log_vars

\* parser = an_app.register_command(...); parser.add_argument(...)
command_add_argument(p, dest) ==
    /\ Idle
    /\ p \in CommandParsers
    /\ LET r == add_argument(parsers, p, dest) IN
        /\ parsers' = r.ps
        /\ result' = Call("add_argument", dest, None, r.err)
    /\ UNCHANGED << subparser_cached, shared_parsers, after_parse_hooks >>
    /\ UNCHANGED run_vars
    /\ UNCHANGED doc_vars
    /\ UNCHANGED log_vars

\* The argv of such an app: a command token and up to MaxOptions options.
MaxOptions == 2

RECURSIVE SeqsUpTo(_, _)
SeqsUpTo(S, n) ==
    IF n = 0 THEN { << >> }
    ELSE LET shorter == SeqsUpTo(S, n - 1) IN
         shorter \cup { Append(s, x) : s \in shorter, x \in S }

ParentTokens == { CommandName(f) : f \in ParentCommands }
OptionTokens == { XyzzyToken, KeepToken, DepthToken }

ArgvsParents ==
    { << c >> \o o : c \in ParentTokens, o \in SeqsUpTo(OptionTokens, MaxOptions) }

\* An app whose commands take the flags of a shared parser.
NextParents ==
    \/ new_shared_parser("foo")
    \/ \E d \in SharedFlags : shared_add_argument("foo", d)
    \/ \E f \in ParentCommands, n \in SharedNames :
          register_command_parents(f, n)
    \/ \E p \in 1..(MaxParsers + 1), d \in OwnFlags : command_add_argument(p, d)
    \/ \E a \in ArgvsParents : run_parse(a)
    \/ run_dispatch
    \/ run_end

SpecParents == Init /\ [][NextParents]_vars

----------------------------------------------------------------------------
(* Modules and their hooks: register_global_flags, register_shared_flags   *)
(* and register_commands call MODULE.<hook>(app) for each module that has  *)
(* it.  The app a hook works on is a record of the app's fields.           *)

Modules == { "flags_one", "flags_two", "log_mgr" }

\* getattr(module, hook_name, None) is a function
HasHook(module, hook_name) ==
    CASE module = "flags_one" ->
            hook_name \in { "mundane_global_flags", "mundane_commands" }
      [] module = "flags_two" ->
            hook_name \in { "mundane_shared_flags", "mundane_commands" }
      [] module = "log_mgr" -> hook_name = "mundane_global_flags"

\* self, as a hook gets it
TheApp ==
    [ps |-> parsers, cached |-> subparser_cached, shared |-> shared_parsers,
     hooks |-> after_parse_hooks, root |-> root, handlers |-> log_handlers,
     flags |-> log_flags]

\* flags_one.mundane_global_flags: --foo, then the hook check_foo
flags_one_global_flags(app) ==
    LET r == add_argument(app.ps, MainParser, "foo") IN
    IF r.err # "" THEN [err |-> r.err, app |-> app]
    ELSE [err |-> "",
          app |-> [app EXCEPT !.ps = r.ps,
                              !.hooks = append_hook(@, "check_foo")]]

\* log_mgr.mundane_global_flags: add_argument makes the action and then
\* tests for a conflict.  LogLevel.__init__ sets the root level to the name
\* of the level it has; LogDir.__init__ takes handlers[0] of the root
\* logger (an IndexError without one) and assigns the handler's output_dir
\* to itself.
log_mgr_global_flags(app) ==
    LET levelled == [app EXCEPT !.root = set_root_log_level(
                                    @, PyStr(getLevelName(app.root.level)))]
    IN  IF app.flags.level
        THEN [err |-> "ArgumentError", app |-> levelled]
        ELSE LET one == [levelled EXCEPT !.flags.level = TRUE] IN
             IF one.root.handlers = << >>
             THEN [err |-> "IndexError", app |-> one]
             ELSE LET id == Head(one.root.handlers) IN
                  [err |-> "",
                   app |-> [one EXCEPT
                               !.flags.dir = id,
                               !.handlers[id] = set_output_dir(@, @.output_dir)]]

\* flags_two.mundane_shared_flags: the shared parser 'foo' with --xyzzy and
\* --keep, or raise Exception('called again')
flags_two_shared_flags(app) ==
    LET r == new_shared_parser_on(app.ps, app.shared, "foo") IN
    IF r.ret = None THEN [err |-> "Exception", app |-> app]
    ELSE LET x == add_argument(r.ps, r.ret, "xyzzy")
             k == add_argument(x.ps, r.ret, "keep")
         IN  [err |-> "", app |-> [app EXCEPT !.ps = k.ps, !.shared = r.shared]]

\* help='Shoes have custom help.', description=shoes_description
ShoesKwargs == [k \in { "help", "description" } |-> TRUE]

\* One statement of a commands hook: an_app.register_command(f, **kwargs),
\* not reached when an earlier statement raised.  r is what the statements
\* before it made: err, ps, cached, and ret, the parser of the last command.
then_register_command(r, f, kwargs) ==
    IF r.err # "" THEN r
    ELSE register_command_kwargs_on(r.ps, r.cached, f, None, kwargs)

\* parser.add_argument(...) on the parser the last register_command made
then_add_argument(r, dest) ==
    IF r.err # "" THEN r
    ELSE [r EXCEPT !.err = add_argument(r.ps, r.ret, dest).err,
                   !.ps = add_argument(r.ps, r.ret, dest).ps]

\* parents=[an_app.get_shared_parser('foo')]
then_register_with_shared(r, shared, f, name) ==
    then_register_command(
        r, f, ParentsKwargs(get_shared_parser_on(r.ps, shared, name).ret))

\* a parser of the hook's own with one flag, and a command with it as parent
then_register_with_own(r, f, dest) ==
    IF r.err # "" THEN r
    ELSE register_command_kwargs_on(
             add_argument(Append(r.ps, NewParser(Empty)), Len(r.ps) + 1,
                          dest).ps,
             r.cached, f, None, ParentsKwargs(Len(r.ps) + 1))

\* the app as the statements of a hook left it
Registered(app, r) ==
    [err |-> r.err, app |-> [app EXCEPT !.ps = r.ps, !.cached = r.cached]]

Entering(app) ==
    [err |-> "", ps |-> app.ps, ret |-> None, cached |-> app.cached]

\* flags_one.mundane_commands: generate_report, put_on_hat with the shared
\* parser 'foo' as parent, remove_shoes
flags_one_commands(app) ==
    Registered(app,
        then_register_command(
            then_register_with_shared(
                then_register_command(Entering(app), "generate_report",
                                      NoKwargs),
                app.shared, "put_on_hat", "foo"),
            "remove_shoes", ShoesKwargs))

\* flags_two.mundane_commands: ingest_new_material with --filename,
\* process, and dance with a parser of its own (--now) as parent
flags_two_commands(app) ==
    Registered(app,
        then_register_with_own(
            then_register_command(
                then_add_argument(
                    then_register_command(Entering(app), "ingest_new_material",
                                          NoKwargs),
                    "filename"),
                "process", NoKwargs),
            "dance", "now"))

\* register_func(self)
CallModuleHook(module, hook_name, app) ==
    CASE module = "flags_one" /\ hook_name = "mundane_global_flags" ->
            flags_one_global_flags(app)
      [] module = "log_mgr" /\ hook_name = "mundane_global_flags" ->
            log_mgr_global_flags(app)
      [] module = "flags_two" /\ hook_name = "mundane_shared_flags" ->
            flags_two_shared_flags(app)
      [] module = "flags_one" /\ hook_name = "mundane_commands" ->
            flags_one_commands(app)
      [] module = "flags_two" /\ hook_name = "mundane_commands" ->
            flags_two_commands(app)

\* the loop going through the modules from the last to the first
RECURSIVE register_module_via_hooks_reversed(_, _, _, _)
register_module_via_hooks_reversed(hook_name, modules, app, called) ==
    IF modules = << >> THEN [err |-> "", app |-> app, called |-> called]
    ELSE LET module == modules[Len(modules)]
             rest == SubSeq(modules, 1, Len(modules) - 1)
         IN  IF ~HasHook(module, hook_name)
             THEN register_module_via_hooks_reversed(hook_name, rest, app,
                                                     called)
             ELSE LET r == CallModuleHook(module, hook_name, app) IN
                  IF r.err # ""
                  THEN [err |-> r.err, app |-> r.app,
                        called |-> Append(called, module)]
                  ELSE register_module_via_hooks_reversed(
                           hook_name, rest, r.app, Append(called, module))

\* ArgparseApp._register_module_via_hooks: for module in modules, the hook
\* is looked up and, when there is one, called with the app; what a hook
\* raises ends the loop.  `called` is the modules whose hook was called.
RECURSIVE register_module_via_hooks(_, _, _, _)
register_module_via_hooks(hook_name, modules, app, called) ==
    IF modules = << >> THEN [err |-> "", app |-> app, called |-> called]
    ELSE LET module == Head(modules) IN
         IF ~HasHook(module, hook_name)
         THEN register_module_via_hooks(hook_name, Tail(modules), app, called)
         ELSE LET r == CallModuleHook(module, hook_name, app) IN
              IF r.err # ""
              THEN [err |-> r.err, app |-> r.app,
                    called |-> Append(called, module)]
              ELSE register_module_via_hooks(hook_name, Tail(modules), r.app,
                                             Append(called, module))

\* a register_* call: the method, the modules, the modules whose hook was
\* called, and the error that came out
CallModules(op, modules, called, err) ==
    [op |-> op, arg |-> modules, called |-> called, ret |-> None, err |-> err]

register_via(op, hook_name, modules) ==
    /\ Idle
    /\ LET r == register_module_via_hooks(hook_name, modules, TheApp, << >>)
       IN  /\ parsers' = r.app.ps
           /\ subparser_cached' = r.app.cached
           /\ shared_parsers' = r.app.shared
           /\ after_parse_hooks' = r.app.hooks
           /\ root' = r.app.root
           /\ log_handlers' = r.app.handlers
           /\ log_flags' = r.app.flags
           /\ result' = CallModules(op, modules, r.called, r.err)
    /\ UNCHANGED fs
    /\ UNCHANGED run_vars
    /\ UNCHANGED doc_vars

\* ArgparseApp.register_global_flags(modules)
register_global_flags(modules) ==
    register_via("register_global_flags", "mundane_global_flags", modules)

\* ArgparseApp.register_shared_flags(modules)
register_shared_flags(modules) ==
    register_via("register_shared_flags", "mundane_shared_flags", modules)

\* ArgparseApp.register_commands(modules)
register_commands(modules) ==
    register_via("register_commands", "mundane_commands", modules)

\* The lists of modules handed to a register_* call.
ModuleLists ==
    { << >>, << "log_mgr" >>, << "flags_one" >>, << "flags_two" >>,
      << "flags_one", "flags_two" >>, << "flags_two", "flags_one" >>,
      << "log_mgr", "flags_one" >>, << "flags_one", "log_mgr" >>,
      << "flags_one", "flags_one" >>,
      << "flags_two", "log_mgr", "flags_one" >> }

\* An app set up from modules; the log handler may be activated first.
NextModules ==
    \/ \E d \in { << "one" >> } : log_flags = NoLogFlags /\ activate(d)
    \/ \E m \in ModuleLists : register_global_flags(m)
    \/ \E m \in ModuleLists : register_shared_flags(m)
    \/ \E m \in ModuleLists : register_commands(m)

SpecModules == Init /\ [][NextModules]_vars

\* The argv of an app with the logging flags: up to two of -L LEVEL (one
\* of them no level), --log-dir DIR, --foo, -h, a command and a word.
LogTokens ==
    { LevelToken("INFO"), LevelToken("DEBUG"), LevelToken("TRACE"),
      DirToken(<< "two" >>), DirToken(<< "/", "tmp" >>),
      FooToken, HelpToken, BogusToken, CommandName("generate_report") }

ArgvsLog == SeqsUpTo(LogTokens, 2)

\* An app with the flags of log_mgr and of flags_one, commands, and run().
NextLogFlags ==
    \/ \E d \in { << "one" >> } : activate(d)
    \/ \E m \in { << "log_mgr" >>, << "flags_one" >> } : register_global_flags(m)
    \/ \E f \in { "generate_report" } : register_command(f, None)
    \/ \E a \in ArgvsLog : run_parse(a)
    \/ run_hook
    \/ run_dispatch
    \/ run_end

SpecLogFlags == Init /\ [][NextLogFlags]_vars

----------------------------------------------------------------------------
(* Docstring: a docstring is text, a sequence of lines; a line is its      *)
(* leading whitespace (indent) and its words.  Words are no longer than    *)
(* the narrowest width and have no hyphen, so textwrap never breaks one.   *)
(* A reflowed string is a sequence of lines of words; '' is one line       *)
(* without words.                                                          *)

MaxLines == 3       \* lines of a __doc__

Words == { "aa", "bbb" }

WordLen(w) == CASE w = "aa" -> 2 [] w = "bbb" -> 3

LineWords == { << >>, << "aa" >>, << "aa", "bbb" >> }

Indents == { 0, 1, 2 }

DocLines == [indent : Indents, words : LineWords]

\* The texts of obj.__doc__: 1..MaxLines lines.
Docs == SeqsUpTo(DocLines, MaxLines) \ { << >> }

Widths == { 3, 6 }

\* line.strip() == ''
IsBlank(line) == line.words = << >>

\* line == ''
IsEmptyLine(line) == line.words = << >> /\ line.indent = 0

SetMin(S) == CHOOSE x \in S : \A y \in S : x <= y
SetMax(S) == CHOOSE x \in S : \A y \in S : x >= y

\* inspect.cleandoc: the first line is lstripped, the margin (the least
\* indent of the later lines that have content) is cut from the later
\* lines, and the empty lines at both ends are dropped; [] joins to ''
cleandoc(lines) ==
    LET content == { i \in 2..Len(lines) : ~IsBlank(lines[i]) }
        dedented ==
            [i \in 1..Len(lines) |->
                IF i = 1 THEN [lines[i] EXCEPT !.indent = 0]
                ELSE IF content = {} THEN lines[i]
                ELSE LET margin == SetMin({ lines[j].indent : j \in content })
                     IN  [lines[i] EXCEPT
                             !.indent = IF @ > margin THEN @ - margin ELSE 0]]
        kept == { i \in 1..Len(lines) : ~IsEmptyLine(dedented[i]) }
    IN  IF kept = {} THEN << >>
        ELSE SubSeq(dedented, SetMin(kept), SetMax(kept))

\* inspect.getdoc(obj)
getdoc(obj) == IF obj.t = "str" THEN PyStr(cleandoc(obj.v)) ELSE PyNone

\* ''
EmptyStr == << << >> >>

\* textwrap.wrap: the words are put on a line as long as they fit
RECURSIVE wrap(_, _, _, _)
wrap(words, width, line, len) ==
    IF words = << >>
    THEN IF line = << >> THEN << >> ELSE << line >>
    ELSE LET w == Head(words)
             need == IF line = << >> THEN WordLen(w) ELSE len + 1 + WordLen(w)
         IN  IF line = << >> \/ need <= width
             THEN wrap(Tail(words), width, Append(line, w), need)
             ELSE << line >> \o wrap(words, width, << >>, 0)

\* textwrap.fill(' '.join(words), width): '\n'.join(wrap(...))
fill(words, width) ==
    LET lines == wrap(words, width, << >>, 0) IN
    IF lines = << >> THEN EmptyStr ELSE lines

\* the generator paragraphs(content) of _process, after the first line
RECURSIVE paragraphs_rest(_, _, _)
paragraphs_rest(split, current, width) ==
    IF split = << >>
    THEN IF current # << >> THEN << fill(current, width) >> ELSE << >>
    ELSE IF ~IsBlank(Head(split))
         THEN paragraphs_rest(Tail(split), current \o Head(split).words, width)
         ELSE IF current # << >>
              THEN << fill(current, width) >>
                       \o paragraphs_rest(Tail(split), << >>, width)
              ELSE paragraphs_rest(Tail(split), << >>, width)

\* paragraphs(content): the first line, then the runs of lines that are
\* not blank
paragraphs(content, width) ==
    << fill(Head(content).words, width) >>
        \o paragraphs_rest(Tail(content), << >>, width)

\* '\n\n'.join(parts)
RECURSIVE join_paragraphs(_)
join_paragraphs(parts) ==
    IF parts = << >> THEN EmptyStr
    ELSE IF Len(parts) = 1 THEN parts[1]
    ELSE parts[1] \o EmptyStr \o join_paragraphs(Tail(parts))

\* if not self._summary: self._summary = para, for each para in turn
RECURSIVE first_truthy(_)
first_truthy(parts) ==
    IF parts = << >> THEN EmptyStr
    ELSE IF Head(parts) # EmptyStr THEN Head(parts)
    ELSE first_truthy(Tail(parts))

\* if self._doc: a str that is not ''
HasDoc(doc) == doc.t = "str" /\ doc.v # << >>

\* Docstring._process
process(d) ==
    LET parts == IF HasDoc(d.doc) THEN paragraphs(d.doc.v, d.width)
                 ELSE << >>
    IN  [d EXCEPT !.summary = PyStr(first_truthy(parts)),
                  !.description = PyStr(join_paragraphs(parts))]

\* Docstring.__init__(obj, width)
NewDocstring(obj, width) ==
    [made |-> TRUE, obj |-> obj, doc |-> getdoc(obj), width |-> width,
     summary |-> PyNone, description |-> PyNone, returned |-> PyNone]

\* the property Docstring.summary
summary ==
    /\ docstring.made
    /\ LET d == IF docstring.summary.t = "NoneType" THEN process(docstring)
                ELSE docstring
       IN  docstring' = [d EXCEPT !.returned = d.summary]
    /\ UNCHANGED reflowed
    /\ UNCHANGED log_vars
    /\ UNCHANGED reg_vars
    /\ UNCHANGED run_vars

\* the property Docstring.description
description ==
    /\ docstring.made
    /\ LET d == IF docstring.description.t = "NoneType" THEN process(docstring)
                ELSE docstring
       IN  docstring' = [d EXCEPT !.returned = d.description]
    /\ UNCHANGED reflowed
    /\ UNCHANGED log_vars
    /\ UNCHANGED reg_vars
    /\ UNCHANGED run_vars

\* A Docstring made for some object and width, and read.
InitDocstring ==
    /\ parsers = << NewParser(Empty) >>
    /\ subparser_cached = FALSE
    /\ shared_parsers = Empty
    /\ after_parse_hooks = << >>
    /\ result = Call("__init__", "", None, "")
    /\ pc = "idle"
    /\ argv = << >>
    /\ args = Empty
    /\ hook_idx = 0
    /\ trace = << >>
    /\ outcome = [kind |-> "none", val |-> PyNone]
    /\ reflowed = NoDocstring
    /\ root = NewRoot
    /\ log_handlers = << >>
    /\ fs = InitialFiles
    /\ log_flags = NoLogFlags
    /\ \E width \in Widths :
          \/ docstring = NewDocstring(PyNone, width)
          \/ \E d \in Docs : docstring = NewDocstring(PyStr(d), width)

NextDocstring ==
    \/ summary
    \/ description

SpecDocstring == InitDocstring /\ [][NextDocstring]_vars

\* A reflowed string as the text of a __doc__: fill() leaves no leading
\* whitespace on a line.
AsText(str) == [i \in 1..Len(str) |-> [indent |-> 0, words |-> str[i]]]

\* again = Docstring(obj, width) for an obj whose __doc__ is the description
\* of `docstring`, and again.summary, again.description are read
reflow ==
    /\ docstring.made
    /\ docstring.description.t = "str"
    /\ ~reflowed.made
    /\ reflowed' = process(NewDocstring(PyStr(AsText(docstring.description.v)),
                                         docstring.width))
    /\ UNCHANGED docstring
    /\ UNCHANGED log_vars
    /\ UNCHANGED reg_vars
    /\ UNCHANGED run_vars

\* A Docstring that is read, and whose description is put through
\* Docstring again.
NextReflow ==
    \/ summary
    \/ description
    \/ reflow

SpecReflow == InitDocstring /\ [][NextReflow]_vars

----------------------------------------------------------------------------
(* What run() has called so far. *)

HookEvents == SelectSeq(trace, LAMBDA e : e.ev = "hook")
CallEvents == SelectSeq(trace, LAMBDA e : e.ev = "call")
HelpEvents == SelectSeq(trace, LAMBDA e : e.ev = "print_help")
ErrorEvents == SelectSeq(trace, LAMBDA e : e.ev = "error")
LogEvents == SelectSeq(trace, LAMBDA e : e.ev = "log")

Running == pc # "idle"
Exit(n) == [kind |-> "exit", val |-> PyInt(n)]
NoHelpToken == \A i \in 1..Len(argv) : argv[i] # HelpToken
Has(tok) == \E i \in 1..Len(argv) : argv[i] = tok

\* the handler was reached: the loop over the hooks is over
Dispatched ==
    pc = "done" \/ (pc = "raised" /\ hook_idx > Len(after_parse_hooks))

----------------------------------------------------------------------------
(* C1: after a successful parse run() calls the registered hooks in        *)
(* registration order, one call per registration (a hook registered twice  *)
(* is called twice), each on the Namespace the hook before it left, so     *)
(* what an earlier hook wrote is there for every later hook.               *)
C1_HooksInRegistrationOrder ==
    Running =>
        /\ Len(HookEvents) <= Len(after_parse_hooks)
        /\ \A i \in 1..Len(HookEvents) :
              /\ HookEvents[i].who = after_parse_hooks[i]
              /\ HookEvents[i].at = i
        /\ (pc = "hooks" => Len(HookEvents) = hook_idx - 1)
        /\ (Dispatched => Len(HookEvents) = Len(after_parse_hooks))
        /\ \A i \in 2..Len(HookEvents) :
              HookEvents[i].seen =
                  CallHook(HookEvents[i-1].who, HookEvents[i-1].seen).ns
        /\ \A i \in 1..Len(HookEvents) : \A j \in (i+1)..Len(HookEvents) :
              HookEvents[i].who = "check_foo" =>
                  /\ HasAttr(HookEvents[j].seen, "checker")
                  /\ HookEvents[j].seen["checker"] =
                        PyStr(<< "Foo was ",
                                 StrOfBool(HookEvents[i].seen["foo"].v) >>)

C1_Witness ==
    /\ pc = "done"
    /\ after_parse_hooks = << "check_foo", "hook_one" >>
    /\ Len(HookEvents) = 2
    /\ ~HasAttr(HookEvents[1].seen, "checker")
    /\ HasAttr(HookEvents[2].seen, "checker")

(* C2: the handler is called only after every registered hook has          *)
(* returned, and with the Namespace as the hooks left it: `checker`, set   *)
(* by check_foo, is there for the handler.                                 *)
C2_HandlerAfterAllHooks ==
    \A k \in 1..Len(trace) :
        trace[k].ev = "call" =>
            /\ k = Len(after_parse_hooks) + 1
            /\ \A i \in 1..(k-1) :
                  /\ trace[i].ev = "hook"
                  /\ trace[i].who = after_parse_hooks[i]
            /\ trace[k].seen =
                  (IF k = 1 THEN parse_args(parsers, argv).ns
                   ELSE CallHook(trace[k-1].who, trace[k-1].seen).ns)
            /\ ((\E i \in 1..(k-1) : trace[i].who = "check_foo")
                   => HasAttr(trace[k].seen, "checker"))

C2_Witness ==
    /\ pc = "done"
    /\ Len(after_parse_hooks) = 2
    /\ Len(CallEvents) = 1
    /\ CallEvents[1].who = "remove_shoes"
    /\ CallEvents[1].seen["checker"] = PyStr(<< "Foo was ", "True" >>)
    /\ outcome = Returned(PyInt(3))

(* C3: when argv does not parse (an unknown command or flag) or asks for   *)
(* help, run() ends in SystemExit, status 2 or 0, and neither a hook nor a *)
(* handler is called, a default func set on the main parser included.      *)
C3_ParseFailureExits ==
    /\ (Running /\ argv # << >> /\ argv[1] = HelpToken) =>
          /\ pc = "exited"
          /\ outcome = Exit(0)
    /\ (Running /\ NoHelpToken /\ Has(BogusToken)) =>
          /\ pc = "exited"
          /\ outcome = Exit(2)
    /\ (Running /\ NoHelpToken /\ Has(FooToken)
            /\ "foo" \notin DOMAIN parsers[MainParser].flags) =>
          /\ pc = "exited"
          /\ outcome = Exit(2)
    /\ pc = "exited" =>
          /\ outcome \in { Exit(0), Exit(2) }
          /\ HookEvents = << >>
          /\ CallEvents = << >>
          /\ Len(trace) = 1
          /\ (outcome = Exit(0) =>
                trace[1].ev = "print_help" /\ trace[1].who = "stdout")
          /\ (outcome = Exit(2) =>
                trace[1].ev = "error" /\ trace[1].who = "stderr")

C3_Witness ==
    /\ pc = "exited"
    /\ argv = << BogusToken >>
    /\ outcome = Exit(2)
    /\ parsers[MainParser].defaults = [d \in {"func"} |-> PyFunc("fallback")]
    /\ parsers[MainParser].has_sub
    /\ Len(after_parse_hooks) > 0

(* C4: when the Namespace carries `func` at dispatch, run() calls that     *)
(* function once, with the Namespace, prints no help, and returns what the *)
(* function returned: 3 for remove_shoes, 42 for the default `fallback`.   *)
C4_DispatchCallsFunc ==
    /\ (Dispatched /\ HasAttr(args, "func")) =>
          /\ Len(CallEvents) = 1
          /\ CallEvents[1].who = args["func"].v
          /\ CallEvents[1].seen = args
          /\ HelpEvents = << >>
          /\ (pc = "done" =>
                /\ outcome = Returned(CallFunc(args["func"].v, args).val)
                /\ (args["func"].v = "remove_shoes" =>
                        outcome.val = PyInt(3))
                /\ (args["func"].v = "fallback" => outcome.val = PyInt(42)))
    /\ (Dispatched /\ Len(argv) = 1 /\ ~IsOption(argv[1])) =>
          /\ HasAttr(args, "func")
          /\ CommandName(args["func"].v) = argv[1]
    /\ (Dispatched /\ argv = << >>
            /\ HasAttr(parsers[MainParser].defaults, "func")) =>
          /\ HasAttr(args, "func")
          /\ args["func"] = parsers[MainParser].defaults["func"]

C4_Witness ==
    /\ pc = "done"
    /\ argv = << >>
    /\ parsers[MainParser].has_sub
    /\ Len(CallEvents) = 1
    /\ CallEvents[1].who = "fallback"
    /\ outcome = Returned(PyInt(42))

\* the handler was called and returned None
HandlerReturnedNone ==
    /\ pc = "done"
    /\ Len(CallEvents) = 1
    /\ CallFunc(CallEvents[1].who, CallEvents[1].seen) = Returned(PyNone)

(* C5, as claimed: when the handler returns None, run() returns 0.         *)
C5_NoneBecomesZero ==
    HandlerReturnedNone => outcome = Returned(PyInt(0))

(* C5, amended: when the handler returns None, run() returns None as it    *)
(* is; only the `Finished. (%d)` debug line shows it as 0.                 *)
C5_NoneReturnedAsIs ==
    HandlerReturnedNone =>
        /\ outcome = Returned(PyNone)
        /\ Len(LogEvents) = 1
        /\ LogEvents[1].at = 0

C5_Witness ==
    /\ HandlerReturnedNone
    /\ CallEvents[1].who = "generate_report"
    /\ argv = << CommandName("generate_report") >>

(* C6: when the Namespace carries no `func` (no command in argv, no        *)
(* default func), run() calls no function, prints the main parser's help   *)
(* to stdout, nothing to stderr, and returns os.EX_USAGE.                  *)
C6_NoFuncPrintsHelp ==
    /\ (pc = "done" /\ ~HasAttr(args, "func")) =>
          /\ CallEvents = << >>
          /\ ErrorEvents = << >>
          /\ HelpEvents = << Event("print_help", "stdout", MainParser, Empty) >>
          /\ outcome = Returned(PyInt(EX_USAGE))
    /\ (pc = "done" /\ ~HasAttr(parsers[MainParser].defaults, "func")
            /\ \A i \in 1..Len(argv) : IsOption(argv[i])) =>
          /\ ~HasAttr(args, "func")
          /\ outcome = Returned(PyInt(EX_USAGE))

C6_Witness ==
    /\ pc = "done"
    /\ argv = << >>
    /\ parsers[MainParser].choices_actions # << >>
    /\ CallEvents = << >>
    /\ Len(HelpEvents) = 1
    /\ outcome = Returned(PyInt(EX_USAGE))

----------------------------------------------------------------------------
(* Shared parsers and commands: what registration keeps. *)

\* the scope register_command(f, handle) adds to, when there is one: the
\* handle's parser, or for None the main parser once self.subparser is
\* cached
ScopeOf(handle) == IF handle = None THEN MainParser ELSE handle

NameTaken(f, handle) ==
    /\ handle = None => subparser_cached
    /\ CommandName(f) \in DOMAIN parsers[ScopeOf(handle)].name_parser_map

(* C7: new_shared_parser(name) returns a new parser with no flags iff the  *)
(* name is not in use; for a name in use it returns None, makes no parser  *)
(* and leaves the registry and the first parser as they were.              *)
C7_NewSharedParserOnce ==
    [][ \A n \in SharedNames :
          new_shared_parser(n) =>
            IF n \notin DOMAIN shared_parsers
            THEN /\ result'.ret # None
                 /\ result'.ret \notin 1..Len(parsers)
                 /\ Len(parsers') = Len(parsers) + 1
                 /\ parsers'[result'.ret].flags = Empty
                 /\ DOMAIN shared_parsers' = DOMAIN shared_parsers \cup {n}
                 /\ shared_parsers'[n] = result'.ret
                 /\ \A m \in DOMAIN shared_parsers :
                       shared_parsers'[m] = shared_parsers[m]
                 /\ \A i \in 1..Len(parsers) : parsers'[i] = parsers[i]
            ELSE /\ result'.ret = None
                 /\ parsers' = parsers
                 /\ shared_parsers' = shared_parsers ]_vars

C7_Witness ==
    /\ result = Call("new_shared_parser", "foo", None, "")
    /\ "foo" \in DOMAIN shared_parsers
    /\ DOMAIN parsers[shared_parsers["foo"]].flags = { "xyzzy", "keep" }

(* C8: get_shared_parser(name) changes nothing; it returns None iff no     *)
(* new_shared_parser(name) was made, and else the parser the first         *)
(* new_shared_parser(name) returned: an entry appears only with the parser *)
(* new_shared_parser returned for it, and then stays.                      *)
C8_GetSharedParser ==
    /\ [](result.op = "get_shared_parser" =>
            result.ret = (IF result.arg \in DOMAIN shared_parsers
                          THEN shared_parsers[result.arg] ELSE None))
    /\ [][ /\ \A n \in SharedNames :
                get_shared_parser(n) =>
                    parsers' = parsers /\ shared_parsers' = shared_parsers
           /\ \A n \in DOMAIN shared_parsers :
                /\ n \in DOMAIN shared_parsers'
                /\ shared_parsers'[n] = shared_parsers[n]
           /\ \A n \in DOMAIN shared_parsers' \ DOMAIN shared_parsers :
                result' = Call("new_shared_parser", n, shared_parsers'[n], "")
         ]_vars

C8_Witness ==
    /\ result.op = "get_shared_parser"
    /\ result.arg = "req_file"
    /\ result.ret # None
    /\ result.ret = shared_parsers["req_file"]
    /\ "foo" \in DOMAIN shared_parsers
    /\ shared_parsers["foo"] # result.ret

(* C9: register_command of a function whose name is taken in the scope it  *)
(* is added to fails with argparse's `conflicting subparser` error, during *)
(* registration, and changes nothing; in every state the names of a scope  *)
(* are distinct, and a name keeps the parser and the func it was first     *)
(* registered with.                                                        *)
C9_DuplicateCommandRejected ==
    /\ [](\A p \in 1..Len(parsers) :
            LET c == parsers[p].choices_actions
                m == parsers[p].name_parser_map
            IN  /\ \A i \in 1..Len(c) : \A j \in 1..Len(c) :
                      i # j => c[i] # c[j]
                /\ DOMAIN m = { c[i] : i \in 1..Len(c) }
                /\ \A n \in DOMAIN m :
                      /\ HasAttr(parsers[m[n]].defaults, "func")
                      /\ CommandName(parsers[m[n]].defaults["func"].v) = n
                /\ \A n1 \in DOMAIN m : \A n2 \in DOMAIN m :
                      n1 # n2 => m[n1] # m[n2])
    /\ [][ /\ \A f \in Commands : \A h \in 0..MaxParsers :
                (register_command(f, h) /\ NameTaken(f, h)) =>
                    /\ result' = Call("register_command", f, None,
                                      "ArgumentError")
                    /\ parsers' = parsers
           /\ \A p \in 1..Len(parsers) :
                \A n \in DOMAIN parsers[p].name_parser_map :
                    LET q == parsers[p].name_parser_map[n] IN
                    /\ n \in DOMAIN parsers'[p].name_parser_map
                    /\ parsers'[p].name_parser_map[n] = q
                    /\ parsers'[q].defaults = parsers[q].defaults
         ]_vars

C9_Witness ==
    /\ result = Call("register_command", "dance", None, "ArgumentError")
    /\ CommandName("dance") \in DOMAIN parsers[MainParser].name_parser_map
    /\ \E p \in 2..Len(parsers) :
          CommandName("dance") \in DOMAIN parsers[p].name_parser_map

(* C10: the command name is the function's name with every underscore      *)
(* replaced by a hyphen, and an argv that selects that token parses to a   *)
(* Namespace whose `name` is the token and whose `func` is the function.   *)
C10_TokenSelectsNameAndFunc ==
    /\ \A p \in 1..Len(parsers) :
          \A n \in DOMAIN parsers[p].name_parser_map :
              \E f \in Commands :
                  /\ n = Hyphenate(FuncName(f))
                  /\ parsers[parsers[p].name_parser_map[n]].defaults["func"]
                        = PyFunc(f)
    /\ \A f \in Commands :
          (pc = "hooks" /\ argv = << Hyphenate(FuncName(f)) >>) =>
              /\ args["func"] = PyFunc(f)
              /\ args["name"] = PyStr(Hyphenate(FuncName(f)))

----------------------------------------------------------------------------
(* Exceptions. *)

\* the hook call trace[k] raised
HookRaisedAt(k) ==
    /\ trace[k].ev = "hook"
    /\ CallHook(trace[k].who, trace[k].seen).kind = "raise"

\* the function call trace[k] raised
FuncRaisedAt(k) ==
    /\ trace[k].ev = "call"
    /\ CallFunc(trace[k].who, trace[k].seen).kind = "raise"

(* C17: an exception the dispatched function raises is not caught by       *)
(* run(): run() ends with that exception, as raised, and with no return    *)
(* value or exit status; nothing is called, printed or logged after it.    *)
C17_HandlerExceptionPropagates ==
    /\ \A k \in 1..Len(trace) :
          FuncRaisedAt(k) =>
              /\ k = Len(trace)
              /\ pc = "raised"
              /\ outcome = CallFunc(trace[k].who, trace[k].seen)
              /\ outcome.kind = "raise"
    /\ (Dispatched /\ HasAttr(args, "func")
            /\ CallFunc(args["func"].v, args).kind = "raise") =>
          /\ pc = "raised"
          /\ Len(CallEvents) = 1
          /\ LogEvents = << >>
          /\ HelpEvents = << >>

C17_Witness ==
    /\ pc = "raised"
    /\ Dispatched
    /\ Len(after_parse_hooks) = 1
    /\ Len(CallEvents) = 1
    /\ CallEvents[1].who = "dance"
    /\ argv = << CommandName("dance") >>
    /\ outcome = Raised("AttributeError")

(* C18: an exception an after-parse hook raises is not caught by run():    *)
(* run() ends with it, the hooks registered after the raising one are not  *)
(* called, the function is not called and no help is printed.              *)
C18_HookExceptionPropagates ==
    /\ \A k \in 1..Len(trace) :
          HookRaisedAt(k) =>
              /\ k = Len(trace)
              /\ pc = "raised"
              /\ outcome.kind = "raise"
              /\ hook_idx = k
              /\ CallEvents = << >>
              /\ HelpEvents = << >>
              /\ Len(HookEvents) = k
    /\ (pc = "raised" /\ ~Dispatched) =>
          /\ Len(trace) = hook_idx
          /\ HookRaisedAt(hook_idx)

C18_Witness ==
    /\ pc = "raised"
    /\ after_parse_hooks = << "check_foo", "hook_one" >>
    /\ Len(trace) = 1
    /\ HookRaisedAt(1)
    /\ HasAttr(args, "func")

----------------------------------------------------------------------------
(* Nested commands and keyword arguments. *)

\* the names of every scope, in its _name_parser_map or listed in its help
RegisteredNames ==
    UNION { DOMAIN parsers[p].name_parser_map \cup
            { parsers[p].choices_actions[i] :
                i \in 1..Len(parsers[p].choices_actions) } :
            p \in 1..Len(parsers) }

\* the identifier without its one trailing underscore
StripTrailing(id) ==
    IF Len(id) > 1 /\ id[Len(id)] = "_" THEN SubSeq(id, 1, Len(id) - 1)
    ELSE id

(* C11: for a function whose identifier ends in one underscore (class_)    *)
(* register_command derives the name from the identifier without that      *)
(* underscore (class); no registered name ends in a hyphen.                *)
C11_TrailingUnderscoreStripped ==
    /\ \A n \in RegisteredNames : n[Len(n)] # "-"
    /\ (result.op = "register_command" /\ result.err = ""
            /\ result.kwargs = NoKwargs) =>
          \E p \in 1..Len(parsers) :
              LET n == Hyphenate(StripTrailing(FuncName(result.arg))) IN
              /\ n \in DOMAIN parsers[p].name_parser_map
              /\ parsers[p].name_parser_map[n] = result.ret

\* the last registration was register_command with keyword k
LastRegisteredWith(k) ==
    /\ result.op = "register_command"
    /\ k \in DOMAIN result.kwargs

\* run() is over: it returned, raised or exited
RunOver == pc \in { "done", "raised", "exited" }

(* C12: register_command(class_, name='class') registers the command as    *)
(* `class` and not as the name derived from the identifier, and an argv    *)
(* that selects `class` dispatches to class_.                              *)
C12_NameOverrideRegistered ==
    /\ LastRegisteredWith("name") =>
          /\ result.err \in { "", "ArgumentError" }
          /\ result.err = "" =>
                /\ result.kwargs["name"] \in
                      DOMAIN parsers[MainParser].name_parser_map
                /\ parsers[MainParser].name_parser_map[result.kwargs["name"]]
                      = result.ret
                /\ parsers[result.ret].defaults["func"] = PyFunc(result.arg)
    /\ (LastRegisteredWith("name") /\ RunOver
            /\ argv = << result.kwargs["name"] >>) =>
          /\ pc = "done"
          /\ Len(CallEvents) = 1
          /\ CallEvents[1].who = result.arg

(* C13: a command registered with usage_only=True has no func of its own:  *)
(* selecting it calls no function and run() returns os.EX_USAGE; every     *)
(* other registration sets func to the function registered.                *)
C13_UsageOnlyHasNoFunc ==
    /\ LastRegisteredWith("usage_only") =>
          /\ result.err \in { "", "ArgumentError" }
          /\ result.err = "" => ~HasAttr(parsers[result.ret].defaults, "func")
    /\ (LastRegisteredWith("usage_only") /\ result.err # "ArgumentError"
            /\ RunOver /\ argv = << CommandName(result.arg) >>) =>
          /\ pc = "done"
          /\ CallEvents = << >>
          /\ outcome = Returned(PyInt(EX_USAGE))
    /\ (result.op = "register_command" /\ result.err = ""
            /\ ~LastRegisteredWith("usage_only")) =>
          /\ HasAttr(parsers[result.ret].defaults, "func")
          /\ parsers[result.ret].defaults["func"] = PyFunc(result.arg)

(* C14: when a usage-only command is selected and nothing below it, the    *)
(* help run() prints is the help of that command's parser, not of the main *)
(* parser.                                                                 *)
C14_UsageOnlyPrintsOwnHelp ==
    (LastRegisteredWith("usage_only") /\ result.err # "ArgumentError"
        /\ RunOver /\ argv = << CommandName(result.arg) >>) =>
          /\ pc = "done"
          /\ ErrorEvents = << >>
          /\ \E node \in 2..Len(parsers) :
                /\ CommandName(result.arg) \in
                      DOMAIN parsers[MainParser].name_parser_map
                /\ parsers[MainParser].name_parser_map[CommandName(result.arg)]
                      = node
                /\ HelpEvents = << Event("print_help", "stdout", node, Empty) >>

\* the parser a chain of command tokens leads to, from parser p
RECURSIVE DeepestNode(_, _, _)
DeepestNode(ps, p, toks) ==
    IF toks = << >> THEN p
    ELSE DeepestNode(ps, ps[p].name_parser_map[Head(toks)], Tail(toks))

\* argv was parsed, and is a chain of command tokens
ChainParsed ==
    /\ pc \in { "hooks", "done", "raised" }
    /\ argv # << >>
    /\ \A i \in 1..Len(argv) : ~IsOption(argv[i])

(* C15: for a chain of nested command tokens the function run() calls is   *)
(* the one registered for the last token, never one of a command above it  *)
(* (a command with commands below it runs its own function when the chain  *)
(* ends at it), and `name` in the Namespace is the last token.             *)
C15_DeepestTokenWins ==
    ChainParsed =>
        LET node == DeepestNode(parsers, MainParser, argv) IN
        /\ args["func"] = parsers[node].defaults["func"]
        /\ Dispatched =>
              /\ Len(CallEvents) = 1
              /\ PyFunc(CallEvents[1].who) = parsers[node].defaults["func"]
        /\ args["name"] = PyStr(argv[Len(argv)])

(* C16: new_subparser(parser) can be called again on the same parser: the  *)
(* second call returns the handle the first call returned, attaches        *)
(* nothing and does not fail.                                              *)
C16_NewSubparserIdempotent ==
    [][ \A p \in 1..MaxParsers :
          new_subparser(p) =>
              /\ result'.err = ""
              /\ result'.ret = p
              /\ parsers'[p].has_sub
              /\ parsers[p].has_sub => parsers' = parsers ]_vars

----------------------------------------------------------------------------
(* Shared parsers as parents. *)

\* the parser of the command argv selects, when argv starts with the name
\* of a registered command
Selected == parsers[MainParser].name_parser_map[argv[1]]

SelectsCommand ==
    /\ Running
    /\ argv # << >>
    /\ argv[1] \in DOMAIN parsers[MainParser].name_parser_map

\* option d is given in argv, after the command
Given(d) == \E i \in 2..Len(argv) : OptionDest(argv[i]) = d

ValueGiven(d) ==
    OptionValue(CHOOSE t \in OptionTokens : OptionDest(t) = d)

(* C19: a command registered with a shared parser as parent takes the      *)
(* flags the shared parser has when the command is registered and the      *)
(* flags added to the command's own parser, and no others: argv parses iff *)
(* every option belongs to one of the two (and the required ones are       *)
(* given), the parsed Namespace holds each of these flags, with its        *)
(* default when not given, and a flag added to the command's parser        *)
(* reaches neither the shared parser nor another command.                  *)
C19_ParentFlagsComposed ==
    /\ [](SelectsCommand =>
            LET flags == DOMAIN parsers[Selected].flags IN
            /\ (pc # "exited") <=>
                  /\ \A i \in 2..Len(argv) : OptionDest(argv[i]) \in flags
                  /\ \A d \in flags : Required(d) => Given(d)
            /\ (pc # "exited") =>
                  /\ DOMAIN args = flags \cup { "name", "func" }
                  /\ \A d \in flags :
                        args[d] = IF Given(d) THEN ValueGiven(d)
                                  ELSE FlagDefault(d))
    /\ [][ /\ \A f \in ParentCommands, n \in SharedNames :
                (register_command_parents(f, n) /\ result'.err = "") =>
                    /\ n \in DOMAIN shared_parsers
                    /\ parsers'[result'.ret].flags
                          = parsers[shared_parsers[n]].flags
                    /\ \A q \in 2..Len(parsers) : parsers'[q] = parsers[q]
           /\ \A p \in 1..(MaxParsers + 1), d \in OwnFlags :
                (command_add_argument(p, d) /\ result'.err = "") =>
                    /\ DOMAIN parsers'[p].flags
                          = DOMAIN parsers[p].flags \cup { d }
                    /\ \A q \in 1..Len(parsers) :
                          q # p => parsers'[q] = parsers[q]
         ]_vars

C19_Witness ==
    /\ pc = "done"
    /\ argv = << CommandName("put_on_hat"), XyzzyToken >>
    /\ DOMAIN args = { "name", "func", "xyzzy", "keep", "depth" }
    /\ args["xyzzy"] = PyStr(<< "foo" >>)
    /\ args["keep"] = PyNone
    /\ args["depth"] = PyInt(0)
    /\ DOMAIN parsers[shared_parsers["foo"]].flags = { "xyzzy", "keep" }
    /\ CommandName("dance") \in DOMAIN parsers[MainParser].name_parser_map
    /\ DOMAIN parsers[parsers[MainParser].name_parser_map[
                          CommandName("dance")]].flags = { "xyzzy", "keep" }

----------------------------------------------------------------------------
(* Docstring. *)

\* _process has run
Processed == docstring.made /\ docstring.summary.t = "str"

\* the lines a paragraph starts at: the first line, and every later line
\* that is not blank and follows a blank line or the first line
ParagraphStarts(lines) ==
    { 1 } \cup { i \in 2..Len(lines) :
                   ~IsBlank(lines[i]) /\ (i = 2 \/ IsBlank(lines[i-1])) }

\* the last line of the paragraph that starts at line s
ParagraphEnd(lines, s) ==
    IF s = 1 THEN 1
    ELSE SetMax({ j \in s..Len(lines) : \A k \in s..j : ~IsBlank(lines[k]) })

RECURSIVE WordsOf(_, _, _)
WordsOf(lines, a, b) ==
    IF a > b THEN << >> ELSE lines[a].words \o WordsOf(lines, a + 1, b)

RECURSIVE Ascending(_)
Ascending(S) ==
    IF S = {} THEN << >>
    ELSE << SetMin(S) >> \o Ascending(S \ { SetMin(S) })

\* the paragraphs of a docstring: the first line, and each maximal run of
\* lines that are not blank after it
ParagraphsOf(lines) ==
    LET starts == Ascending(ParagraphStarts(lines)) IN
    [k \in 1..Len(starts) |->
        WordsOf(lines, starts[k], ParagraphEnd(lines, starts[k]))]

(* C20: the docstring (as inspect.getdoc gives it) is split into the first *)
(* line and the maximal runs of non-blank lines after it, none of them     *)
(* empty; summary is the first of these paragraphs filled to the width,    *)
(* description is every paragraph filled to the width, one blank line      *)
(* between two; without a docstring both are ''.                           *)
C20_DocstringParagraphs ==
    Processed =>
        IF HasDoc(docstring.doc)
        THEN LET P == ParagraphsOf(docstring.doc.v) IN
             /\ \A k \in 1..Len(P) : P[k] # << >>
             /\ docstring.summary.v = fill(P[1], docstring.width)
             /\ docstring.description.v =
                   join_paragraphs(
                       [k \in 1..Len(P) |-> fill(P[k], docstring.width)])
        ELSE /\ docstring.summary.v = EmptyStr
             /\ docstring.description.v = EmptyStr

\* both Docstring objects have been processed
Reflowed == Processed /\ reflowed.made

(* C21: a Docstring made at width w from the description another Docstring *)
(* produced at width w has the same summary and the same description as    *)
(* that one.                                                               *)
C21_ReflowIdempotent ==
    Reflowed =>
        /\ reflowed.summary = docstring.summary
        /\ reflowed.description = docstring.description

----------------------------------------------------------------------------
(* LogHandler. *)

\* the names a handler was made with are the names it has
NamesKept ==
    \A id \in DOMAIN log_handlers :
        /\ log_handlers'[id].short_filename = log_handlers[id].short_filename
        /\ log_handlers'[id].long_filename = log_handlers[id].long_filename

\* the paths of handler h are those of its output_dir
PathsFollowOutputDir(h) ==
    /\ h.symlink_path = absolute(h.output_dir \o << h.short_filename >>)
    /\ h.baseFilename = absolute(h.output_dir \o << h.long_filename >>)

(* C25: for every LogHandler, after it is made and after every assignment  *)
(* to output_dir, symlink_path is the absolute path output_dir /           *)
(* short_filename and baseFilename the absolute path output_dir /          *)
(* long_filename; short_filename is progname.log, long_filename is         *)
(* progname.log.HOST.USER.DATETIME.PID, and neither ever changes.          *)
C25_PathsFollowOutputDir ==
    /\ [](\A id \in DOMAIN log_handlers :
            /\ PathsFollowOutputDir(log_handlers[id])
            /\ log_handlers[id].short_filename = AppName \o ".log"
            /\ log_handlers[id].long_filename =
                  AppName \o ".log" \o HostUserDatePid)
    /\ [][NamesKept]_vars

\* the step in which handler id writes its first record: its stream opens
FirstWrite(id) ==
    /\ id \in DOMAIN log_handlers
    /\ log_handlers[id].stream = NoStream
    /\ log_handlers'[id].stream # NoStream

\* a record was written in this step: a log file has one more
RecordWritten ==
    \E k \in DOMAIN fs' :
        /\ fs'[k].kind = "file"
        /\ fs'[k].records > (IF k \in DOMAIN fs THEN fs[k].records ELSE 0)

\* the program did something with its handlers or the root logger
HandlerStep == log_handlers' # log_handlers \/ root' # root

\* the directories on the way to path
Ancestors(path) == { Key(SubSeq(path, 1, n)) : n \in 1..Len(path) }

(* C26: making a LogHandler, activate and assigning output_dir change no   *)
(* file, and a handler has no open stream before a record is written to    *)
(* it; the step that writes the first record makes the output directory    *)
(* of that moment with its missing parents, opens the file long_filename   *)
(* in it and writes the record there, and makes the symlink short_filename *)
(* to it (unless a directory is in its place).                             *)
C26_DeferredUntilFirstWrite ==
    /\ [](\A id \in DOMAIN log_handlers :
            log_handlers[id].stream # NoStream =>
                /\ log_handlers[id].stream \in DOMAIN fs
                /\ fs[log_handlers[id].stream].kind = "file"
                /\ fs[log_handlers[id].stream].records >= 1)
    /\ [][/\ (HandlerStep /\ ~RecordWritten) => fs' = fs
          /\ \A id \in 1..MaxHandlers :
                FirstWrite(id) =>
                    LET h == log_handlers[id]
                        dir == absolute(h.output_dir)
                        file == Key(dir \o << h.long_filename >>)
                        link == Key(dir \o << h.short_filename >>)
                    IN  /\ \A d \in Ancestors(dir) :
                              d \in DOMAIN fs' /\ fs'[d].kind = "dir"
                        /\ log_handlers'[id].stream = file
                        /\ fs'[file].kind = "file"
                        /\ fs'[file].records =
                              1 + (IF file \in DOMAIN fs THEN fs[file].records
                                   ELSE 0)
                        /\ link \in DOMAIN fs'
                        /\ (link \notin DOMAIN fs \/ fs[link].kind # "dir") =>
                              /\ fs'[link].kind = "symlink"
                              /\ Key(fs'[link].target) = file
         ]_vars

\* a handler that was moved to a directory that was not there has written
\* its first record
C26_Witness ==
    \E id \in DOMAIN log_handlers :
        /\ log_handlers[id].output_dir = << "one", "..", "two" >>
        /\ log_handlers[id].stream = << "/", "cwd", "two", AppName \o ".log" \o HostUserDatePid >>
        /\ fs[<< "/", "cwd", "one" >>].kind = "dir"
        /\ fs[<< "/", "cwd", "two", AppName \o ".log" >>].kind = "symlink"
        /\ fs[log_handlers[id].stream].records = 1

(* C27: in the step that writes a handler's first record, a file or a      *)
(* symlink at symlink_path is replaced by a symlink to the new log file;   *)
(* a directory at symlink_path stays as it is, no error reaches the        *)
(* caller, and the record is written to the log file all the same.         *)
C27_SymlinkBestEffort ==
    [][\A id \in 1..MaxHandlers :
          FirstWrite(id) =>
              LET h == log_handlers[id]
                  link == Key(h.symlink_path)
                  file == log_handlers'[id].stream
              IN  /\ fs'[file].kind = "file"
                  /\ fs'[file].records >= 1
                  /\ link \in DOMAIN fs =>
                        IF fs[link].kind = "dir"
                        THEN fs'[link] = fs[link]
                        ELSE /\ fs'[link].kind = "symlink"
                             /\ Key(fs'[link].target) = file
      ]_vars

\* a directory is at symlink_path and the handler has written its record
C27_Witness ==
    \E id \in DOMAIN log_handlers :
        /\ log_handlers[id].stream # NoStream
        /\ fs[log_handlers[id].stream].records >= 1
        /\ Exists(fs, log_handlers[id].symlink_path)
        /\ fs[Key(log_handlers[id].symlink_path)].kind = "dir"
        /\ Key(parent(log_handlers[id].symlink_path)) =
              parent(log_handlers[id].stream)

(* C30: a handler with an open stream writes to the file its baseFilename  *)
(* names, and the symlink at its symlink_path, when there is one, leads to *)
(* that file: no assignment to output_dir leaves the records going to a    *)
(* file of the old directory.                                              *)
C30_WritesToBaseFilename ==
    \A id \in DOMAIN log_handlers :
        LET h == log_handlers[id] IN
        h.stream # NoStream =>
            /\ h.stream = Key(h.baseFilename)
            /\ (Exists(fs, h.symlink_path)
                   /\ fs[Key(h.symlink_path)].kind = "symlink") =>
                  Key(fs[Key(h.symlink_path)].target) = h.stream

----------------------------------------------------------------------------
(* The logging flags. *)

\* the step in which parse_args gives run() its Namespace
ParseCompleted == pc = "idle" /\ pc' = "hooks"

LevelsIn(a) == { i \in 1..Len(a) : IsLevelToken(a[i]) }
DirsIn(a) == { i \in 1..Len(a) : IsDirToken(a[i]) }

\* the handler --log-dir acts on: the root logger's handler at the time the
\* flag was registered
FlagHandler(flags, handlers) == handlers[flags.dir]

(* C22: in the step in which the parse completes, the root logger's level  *)
(* is the LEVEL of the (last) -L in argv, and unchanged without one; the   *)
(* output_dir of the LogHandler the flag was registered for is the DIR of  *)
(* the (last) --log-dir, and no handler changes without one; the Namespace *)
(* has no log_level and no log_dir.  No hook and no function has been      *)
(* called in that step, and the hooks leave these settings alone.          *)
C22_LogFlagsActOnParse ==
    [][/\ ParseCompleted =>
            /\ trace' = << >>
            /\ IF LevelsIn(argv') # {}
               THEN root'.level = LevelNumber(argv'[SetMax(LevelsIn(argv'))][2])
               ELSE root' = root
            /\ IF DirsIn(argv') # {}
               THEN /\ log_flags'.dir # None
                    /\ FlagHandler(log_flags', log_handlers').output_dir =
                          Tail(argv'[SetMax(DirsIn(argv'))])
               ELSE log_handlers' = log_handlers
            /\ ~HasAttr(args', "log_level")
            /\ ~HasAttr(args', "log_dir")
            /\ ~HasAttr(args', "log-level")
            /\ ~HasAttr(args', "log-dir")
       /\ pc = "hooks" => (root' = root /\ log_handlers' = log_handlers)
      ]_vars

\* both flags were given and the function is about to be called
C22_Witness ==
    /\ pc = "hooks"
    /\ hooks_done(after_parse_hooks, hook_idx)
    /\ Len(after_parse_hooks) = 1
    /\ argv = << LevelToken("DEBUG"), DirToken(<< "/", "tmp" >>) >>
    /\ root.level = LevelNumber("DEBUG")
    /\ log_flags.dir # None
    /\ root.handlers = << log_flags.dir >>
    /\ FlagHandler(log_flags, log_handlers).output_dir = << "/", "tmp" >>
    /\ DOMAIN args = { "foo", "checker" }

----------------------------------------------------------------------------
(* Registration through modules. *)

\* the modules of a list that have the hook, in the order of the list
WithHook(hook_name, modules) ==
    SelectSeq(modules, LAMBDA module : HasHook(module, hook_name))

\* what the commands hook of a module adds to the help list, in its order
CommandsOf(module) ==
    CASE module = "flags_one" ->
            << CommandName("generate_report"), CommandName("put_on_hat"),
               CommandName("remove_shoes") >>
      [] module = "flags_two" ->
            << CommandName("ingest_new_material"), CommandName("process"),
               CommandName("dance") >>

\* what the global flags hook of a module adds to the after-parse hooks
HooksOf(module) ==
    IF module = "flags_one" THEN << "check_foo" >> ELSE << >>

RECURSIVE InModuleOrder(_, _)
InModuleOrder(Of(_), modules) ==
    IF modules = << >> THEN << >>
    ELSE Of(Head(modules)) \o InModuleOrder(Of, Tail(modules))

\* the app is as it was
AppUnchanged ==
    UNCHANGED << parsers, subparser_cached, shared_parsers, after_parse_hooks,
                 root, log_handlers, log_flags, fs >>

\* after register_*(modules): the hooks called are those of the modules
\* that have hook_name, once each and in the order of the list, up to the
\* one that raised; with no such module nothing changed and nothing was
\* raised; the commands and after-parse hooks of a call that returned are
\* appended in the order of the modules
RegisteredInOrder(hook_name, modules) ==
    LET have == WithHook(hook_name, modules)
        called == result'.called
    IN  /\ Len(called) <= Len(have)
        /\ called = SubSeq(have, 1, Len(called))
        /\ IF result'.err = "" THEN called = have ELSE called # << >>
        /\ have = << >> => AppUnchanged
        /\ (result'.err = "" /\ hook_name = "mundane_commands" /\ have # << >>)
              => parsers'[MainParser].choices_actions =
                   parsers[MainParser].choices_actions
                     \o InModuleOrder(CommandsOf, have)
        /\ (result'.err = "" /\ hook_name = "mundane_global_flags")
              => after_parse_hooks' =
                   after_parse_hooks \o InModuleOrder(HooksOf, have)

(* C23: every register_global_flags, register_shared_flags and             *)
(* register_commands step calls the hook of exactly the modules that have  *)
(* it, once each in the order of the list (up to a hook that raises);      *)
(* modules without the hook change nothing and raise nothing; commands and *)
(* after-parse hooks end up in module order.                               *)
C23_ModulesVisitedInOrder ==
    [][\A modules \in ModuleLists :
          /\ register_global_flags(modules)
                => RegisteredInOrder("mundane_global_flags", modules)
          /\ register_shared_flags(modules)
                => RegisteredInOrder("mundane_shared_flags", modules)
          /\ register_commands(modules)
                => RegisteredInOrder("mundane_commands", modules)]_vars

\* flags_two, log_mgr (no commands hook), flags_one: six commands in order
C23_Witness ==
    /\ result.op = "register_commands"
    /\ result.err = ""
    /\ result.arg = << "flags_two", "log_mgr", "flags_one" >>
    /\ result.called = << "flags_two", "flags_one" >>
    /\ parsers[MainParser].choices_actions =
         << CommandName("ingest_new_material"), CommandName("process"),
            CommandName("dance"), CommandName("generate_report"),
            CommandName("put_on_hat"), CommandName("remove_shoes") >>

----------------------------------------------------------------------------
(* The subparser property. *)

\* the _SubParsersAction of the main parser exists
HasTable == parsers[MainParser].has_sub

\* a command was registered at the top level
CommandRegistered == DOMAIN parsers[MainParser].name_parser_map # {}

\* what an access to the property does, by what was there before it
AccessOutcome ==
    CASE subparser_cached ->
            /\ result'.err = "" /\ result'.ret = MainParser
            /\ parsers' = parsers /\ subparser_cached'
      [] ~subparser_cached /\ ~HasTable ->
            /\ result'.err = "" /\ result'.ret = MainParser
            /\ HasTable' /\ subparser_cached'
            /\ ~CommandRegistered'
      [] ~subparser_cached /\ HasTable ->      \* new_subparser(parser) made it
            /\ result'.err = "SystemExit"
            /\ parsers' = parsers /\ ~subparser_cached'

----------------------------------------------------------------------------
(* Hooks when no command is selected. *)

\* argv parsed and names no command: run() is past parse_args and every
\* token of argv is an option
NoCommandSelected ==
    /\ pc \in { "hooks", "done", "raised" }
    /\ \A i \in 1..Len(argv) : IsOption(argv[i])

\* a hook raised: the loop stopped at it
HookRaised == pc = "raised" /\ hook_idx <= Len(after_parse_hooks)

(* C28 as stated: when argv selects no command every hook sees a Namespace *)
(* whose name is None.                                                     *)
C28_HooksSeeNoneName ==
    NoCommandSelected =>
        \A i \in 1..Len(HookEvents) :
            /\ HasAttr(HookEvents[i].seen, "name")
            /\ HookEvents[i].seen["name"] = PyNone

(* C28, amended: when argv parses and selects no command the hooks are     *)
(* called first, in registration order, every one of them unless one       *)
(* raises; only then run() dispatches: it prints the help and returns      *)
(* EX_USAGE when the Namespace has no func, and calls the default func      *)
(* otherwise.  The hooks see name = None when the main parser has its      *)
(* table of commands, and no name at all when it has none.                 *)
C28_HooksRunWithoutCommand ==
    NoCommandSelected =>
        /\ \A i \in 1..Len(HookEvents) :
              /\ trace[i] = HookEvents[i]
              /\ HookEvents[i].who = after_parse_hooks[i]
              /\ IF parsers[MainParser].has_sub
                 THEN /\ HasAttr(HookEvents[i].seen, "name")
                      /\ HookEvents[i].seen["name"] = PyNone
                 ELSE ~HasAttr(HookEvents[i].seen, "name")
        /\ (pc = "hooks" => trace = HookEvents /\ Len(trace) = hook_idx - 1)
        /\ (HookRaised => trace = HookEvents /\ Len(trace) = hook_idx)
        /\ (pc = "done" \/ (pc = "raised" /\ ~HookRaised)) =>
              /\ Len(HookEvents) = Len(after_parse_hooks)
              /\ Len(trace) > Len(HookEvents)
              /\ IF HasAttr(args, "func")
                 THEN /\ trace[Len(HookEvents) + 1].ev = "call"
                      /\ HelpEvents = << >>
                      /\ HasAttr(parsers[MainParser].defaults, "func")
                 ELSE /\ trace[Len(HookEvents) + 1] =
                            Event("print_help", "stdout", MainParser, Empty)
                      /\ CallEvents = << >>
                      /\ outcome = Returned(PyInt(EX_USAGE))

\* two hooks ran on [--foo] of an app with a command, then the help
C28_Witness ==
    /\ pc = "done"
    /\ argv = << FooToken >>
    /\ parsers[MainParser].has_sub
    /\ after_parse_hooks = << "check_foo", "hook_one" >>
    /\ Len(HookEvents) = 2
    /\ HookEvents[2].seen["name"] = PyNone
    /\ Len(HelpEvents) = 1
    /\ outcome = Returned(PyInt(EX_USAGE))

----------------------------------------------------------------------------
(* Hooks that change func. *)

\* the hooks that touch func
TouchesFunc(h) == h \in { "drop_func", "use_roger" }

FuncHookAt == { i \in 1..Len(after_parse_hooks) :
                  TouchesFunc(after_parse_hooks[i]) }

\* the last registered hook that touches func
LastFuncHook == after_parse_hooks[SetMax(FuncHookAt)]

\* the Namespace parse_args gave run()
Parsed == parse_args(parsers, argv).ns

\* run() called exactly f, and printed no help
CalledOnly(f) ==
    /\ Len(CallEvents) = 1
    /\ CallEvents[1].who = f
    /\ HelpEvents = << >>

\* run() called nothing, printed the help and returned EX_USAGE
CalledNothing ==
    /\ CallEvents = << >>
    /\ HelpEvents = << Event("print_help", "stdout", MainParser, Empty) >>
    /\ outcome = Returned(PyInt(EX_USAGE))

(* C29: once the hooks have all returned, run() dispatches on the          *)
(* Namespace as they left it: after a last func-touching hook that removed *)
(* func no function is called, the help is printed and EX_USAGE returned;  *)
(* after one that set func, the function it put there is called and not    *)
(* the one the parse selected; with no such hook the parsed func decides.  *)
C29_DispatchAfterHooks ==
    Dispatched =>
        /\ IF HasAttr(args, "func") THEN CalledOnly(args["func"].v)
           ELSE CalledNothing
        /\ IF FuncHookAt = {}
           THEN IF HasAttr(Parsed, "func") THEN CalledOnly(Parsed["func"].v)
                ELSE CalledNothing
           ELSE IF LastFuncHook = "drop_func" THEN CalledNothing
                ELSE CalledOnly("roger")

\* generate-report was selected, the hook dropped it, the help was printed
C29_Witness ==
    /\ pc = "done"
    /\ argv = << CommandName("generate_report") >>
    /\ Parsed["func"] = PyFunc("generate_report")
    /\ after_parse_hooks = << "use_roger", "drop_func" >>
    /\ CalledNothing

\* remove-shoes was selected, the hook put roger there, roger was called
C29_WitnessReplaced ==
    /\ pc = "done"
    /\ argv = << CommandName("remove_shoes") >>
    /\ after_parse_hooks = << "drop_func", "use_roger" >>
    /\ CalledOnly("roger")
    /\ outcome = Returned(PyInt(0))

====
